---------------------------- MODULE Spec2Model ----------------------------
(***************************************************************************)
(* Model of the Adero messaging library: the adero Publisher and           *)
(* Subscriber (src/adero/pubsub), the RPCClient                            *)
(* (src/adero/request_response), the plain messaging_utility Subscriber    *)
(* and RPCServer (src/messaging_utility) and the constructors of all of    *)
(* them, driven against an abstract RabbitMQ broker.  pika itself is the   *)
(* environment: each broker operation either succeeds or raises one of     *)
(* pika's exception classes.                                               *)
(* RabbitSerializer and RabbitSecurity (src/adero/utilities) are modelled   *)
(* on their own, value by value, and so is the use of one instance by two  *)
(* threads.                                                                *)
(***************************************************************************)
EXTENDS Integers, Sequences, FiniteSets, TLC

VARIABLES
    pub,      \* the fields of one adero Publisher instance
    pcall,    \* the publish() call in progress on it (frames, outcome, bookkeeping)
    sub,      \* the fields of one Subscriber / RPCServer instance
    scall,    \* the consume() / listen() call in progress on it
    broker,   \* what the broker holds and what it was asked to do
    rpc,      \* one RPCClient: its fields, its call() in progress, its reply queue
    made,     \* the latest construction of a component and how it ended
    codec,    \* one use of RabbitSerializer / RabbitSecurity: input, wire value, outcome
    race,     \* two threads calling consume() / publish() on one shared instance
    send      \* one Publisher built from raw names and what one publish() hands over

vars == <<pub, pcall, sub, scall, broker, rpc, made, codec, race, send>>

(***************************************************************************)
(* Bounds of the model.                                                    *)
(***************************************************************************)
MaxCalls == 3        \* publish() calls made on one Publisher
MaxConsumeCalls == 2 \* consume() / listen() calls made on one instance
MaxQueueLen == 2     \* messages an outside producer puts on the consumed queue
MaxBudget == 1       \* largest explicitly configured RABBIT_CONNECTION_CLOSED_RETRY
MaxDrops == 2        \* spontaneous connection losses during one publish() call
MaxDeliveries == 2   \* deliveries handed to the message handler of one instance

(***************************************************************************)
(* Program constants.                                                      *)
(***************************************************************************)
MaxRetryCount == 5   \* publisher.py:130  if self.retry_count <= 5
WaitTime == 60       \* publisher.py:135  wait_time = 60
RebootDelay == 5     \* subscriber.py:166 time.sleep(5)
DefaultRetries == 3  \* subscriber.py:32  config.get("RABBIT_CONNECTION_CLOSED_RETRY", 3)

(***************************************************************************)
(* pika's exception classes, as far as the except clauses tell them apart. *)
(* Every one of them derives from AMQPError; ConnectionClosed and          *)
(* ChannelClosed are two of its descendants.                               *)
(***************************************************************************)
BrokerErrors ==
    {"AMQPConnectionError", "StreamLostError", "ConnectionClosed", "ChannelClosed"}

\* errors BlockingConnection(...) / channel() / the declarations can raise
ConnectErrors == {"AMQPConnectionError", "ConnectionClosed", "ChannelClosed"}

\* errors an operation on an established channel can raise
ChannelErrors == {"StreamLostError", "ConnectionClosed", "ChannelClosed"}

\* isinstance(err, cls) over the classes above
IsInstance(err, cls) ==
    \/ cls = "AMQPError" /\ err \in BrokerErrors
    \/ cls = err

(***************************************************************************)
(*                 Queue names and the FAILED- marker                      *)
(***************************************************************************)
Marker == <<"F", "A", "I", "L", "E", "D", "-">>


\* str.upper()
Upper(s) ==
    LET UpperChar(c) ==
            CASE c = "a" -> "A" [] c = "d" -> "D" [] c = "e" -> "E" [] c = "f" -> "F"
              [] c = "i" -> "I" [] c = "l" -> "L" [] c = "q" -> "Q" [] c = "x" -> "X"
              [] OTHER -> c
    IN
        [i \in 1..Len(s) |-> UpperChar(s[i])]

\* the places where m occurs in s
Occurrences(s, m) ==
    {i \in 1..(Len(s) - Len(m) + 1) : SubSeq(s, i, i + Len(m) - 1) = m}

\* m in s
Contains(s, m) == Occurrences(s, m) # {}

\* the queue names callers pass to the constructors
RawQueueNames ==
    { <<"q">>,
      <<"f", "a", "i", "l", "e", "d", "-", "q">>,
      <<"F", "A", "I", "L", "E", "D", "-", "Q">>,
      <<"x", "-", "F", "A", "I", "L", "E", "D", "-", "q">>,
      <<"F", "A", "I", "L", "E", "D", "-", "F", "A", "I", "L", "E", "D", "-", "Q">> }

RawExchange == <<"e", "x">>

(***************************************************************************)
(* create_connection_to_rabbitmq_host: connect, open a channel, declare.   *)
(* step is where it fails ("none": it does not).  Gives what self holds    *)
(* afterwards: an assignment that was not reached leaves the old object in *)
(* place.                                                                  *)
(***************************************************************************)
ConnectSteps == {"connect", "channel", "declare"}

\* the declarations without the bindings
TopologyOfWithoutBindings(exchange, queues) ==
    {<<"exchange", exchange>>} \cup {<<"queue", q>> : q \in queues}

\* exchange_declare, then queue_declare and queue_bind for each queue
TopologyOf(exchange, queues) ==
    {<<"exchange", exchange>>}
    \cup {<<"queue", q>> : q \in queues}
    \cup {<<"binding", q>> : q \in queues}

\* o: the instance before the call; topology: what a complete run declares.
\*   connection_closed, channel_closed : is_closed of self.connection / self.channel
\*   channel_current : self.channel was opened on self.connection
\*   declared        : what was declared on self.channel
\*   connection_new, channel_new : the object was replaced by this run
ConnectionAfter(step, o, topology) ==
    CASE step = "connect" ->
           [connection_closed |-> o.connection_closed,
            channel_closed |-> o.channel_closed,
            channel_current |-> o.channel_current, declared |-> o.declared,
            connection_new |-> FALSE, channel_new |-> FALSE]
      [] step = "channel" ->
           [connection_closed |-> FALSE, channel_closed |-> o.channel_closed,
            channel_current |-> FALSE, declared |-> o.declared,
            connection_new |-> TRUE, channel_new |-> FALSE]
      [] step = "declare" ->
           [connection_closed |-> FALSE, channel_closed |-> TRUE,
            channel_current |-> TRUE, declared |-> {},
            connection_new |-> TRUE, channel_new |-> TRUE]
      [] OTHER ->
           [connection_closed |-> FALSE, channel_closed |-> FALSE,
            channel_current |-> TRUE, declared |-> topology,
            connection_new |-> TRUE, channel_new |-> TRUE]

\* the instance after create_connection_to_rabbitmq_host ran up to step
Reconnect(o, step, topology) ==
    [o EXCEPT
       !.connection_closed = ConnectionAfter(step, o, topology).connection_closed,
       !.channel_closed = ConnectionAfter(step, o, topology).channel_closed,
       !.channel_current = ConnectionAfter(step, o, topology).channel_current,
       !.declared = ConnectionAfter(step, o, topology).declared]

\* the lazy check looking at the connection only
NeedsReconnectConnectionOnly(o) == o.connection_closed

\* if self.connection.is_closed or self.channel.is_closed
NeedsReconnect(o) == o.connection_closed \/ o.channel_closed

\* bookkeeping of the latest attempt of publish() / consume(), kept until the
\* call moves on: what the lazy check found, whether
\* create_connection_to_rabbitmq_host was called, and on what the channel
\* operation (if the attempt got that far) was issued
NoAttempt ==
    [op |-> "none", connection_closed |-> FALSE, channel_closed |-> FALSE,
     reconnected |-> FALSE, on_new |-> FALSE, on_current |-> FALSE,
     on_open |-> FALSE, declared |-> {}, left_open |-> FALSE]

\* self.connection = pika.BlockingConnection(...) rebinds the attribute and
\* closes nothing: the connection the instance held before stays as it was,
\* so it is left open when it was open and a new one took its place
LeftOpen(o, step, topology) ==
    ~o.connection_closed /\ ConnectionAfter(step, o, topology).connection_new

\* o: the instance at the start of the attempt; step: how far the reconnect
\* (if any) got; op: the channel operation issued, "none" if none was
Attempt(o, step, topology, op) ==
    LET rec == NeedsReconnect(o)
        after == IF rec THEN Reconnect(o, step, topology) ELSE o
    IN  [op |-> op,
         connection_closed |-> o.connection_closed,
         channel_closed |-> o.channel_closed,
         reconnected |-> rec,
         on_new |-> /\ rec
                    /\ ConnectionAfter(step, o, topology).connection_new
                    /\ ConnectionAfter(step, o, topology).channel_new,
         on_current |-> after.channel_current,
         on_open |-> ~after.connection_closed /\ ~after.channel_closed,
         declared |-> after.declared,
         left_open |-> rec /\ LeftOpen(o, step, topology)]

(***************************************************************************)
(*                    Construction of the components                       *)
(***************************************************************************)
Components ==
    {"adero.Publisher", "adero.Subscriber", "adero.RPCClient",
     "messaging_utility.Publisher", "messaging_utility.Subscriber",
     "messaging_utility.RPCServer"}

\* the components that take a processing function
WithProcessor ==
    {"adero.Subscriber", "messaging_utility.Subscriber", "messaging_utility.RPCServer"}

\* the components that build a RabbitSecurity from ENCRYPTION_KEY
WithSecurity == {"adero.Publisher", "adero.Subscriber"}


\* a connection parameter as given: not given (None), "" or a usable value
Given == {"absent", "empty", "set"}


\* config.get(KEY) / config.get(KEY, settings.KEY)
ConfigGet(component, given, setting) ==
    LET \* the components whose config.get falls back on the settings (environment)
        WithSettings == Components \ {"adero.Publisher", "adero.Subscriber"}
    IN
        IF component \in WithSettings /\ given = "absent" THEN setting ELSE given

\* the parameters __init__ stores
Stored(component, config, setting) ==
    [user |-> ConfigGet(component, config.user, setting),
     password |-> ConfigGet(component, config.password, setting),
     host |-> ConfigGet(component, config.host, setting),
     vhost |-> ConfigGet(component, config.vhost, setting)]

\* the check with the virtual host left out
ConfigCompleteWithoutVhost(p) ==
    /\ p.user = "set"
    /\ p.password = "set"
    /\ p.host = "set"

\* all([user, password, host, port, vhost is not None, timeout]); the port
\* and the timeout have defaults
ConfigComplete(p) ==
    /\ p.user = "set"
    /\ p.password = "set"
    /\ p.host = "set"
    /\ p.vhost # "absent"

\* the exception class each component raises for its own checks
ExceptionOf(component) ==
    CASE component \in {"adero.Publisher", "messaging_utility.Publisher"} ->
           "PublisherException"
      [] component \in {"adero.Subscriber", "messaging_utility.Subscriber"} ->
           "SubscriberException"
      [] component = "adero.RPCClient" -> "RPCClientException"
      [] OTHER -> "RPCServerException"

\* the connect moved before the validation of the processing function
InitOrderConnectsEarly(component) ==
    <<"config">>
    \o (IF component \in WithSecurity THEN <<"security">> ELSE <<>>)
    \o <<"connect">>
    \o (IF component \in WithProcessor THEN <<"processor">> ELSE <<>>)

\* the steps of __init__ that can fail, in the order of the code
InitOrder(component) ==
    <<"config">>
    \o (IF component \in WithSecurity THEN <<"security">> ELSE <<>>)
    \o (IF component \in WithProcessor THEN <<"processor">> ELSE <<>>)
    \o <<"connect">>

\* the arguments of one construction and the state of the broker
Construction(component, config, setting, key_ok, callable, broker_up) ==
    [component |-> component, config |-> config, setting |-> setting,
     key_ok |-> key_ok, callable |-> callable, broker_up |-> broker_up,
     outcome |-> "none", exception |-> "none", connects |-> 0]


\* __init__ from the given step on: the first step that fails raises
RECURSIVE RunInit(_, _)
RunInit(m, steps) ==
    LET \* one step of __init__: does it pass, and what it raises when it does not
        StepPasses(c, st) ==
            CASE st = "config"    -> ConfigComplete(Stored(c.component, c.config, c.setting))
              [] st = "security"  -> c.key_ok
              [] st = "processor" -> c.callable
              [] OTHER            -> c.broker_up
        StepRaises(c, st) ==
            CASE st \in {"config", "processor"} -> ExceptionOf(c.component)
              [] st = "security" -> "RabbitSecurityException"
              [] OTHER -> "AMQPConnectionError"
    IN  IF steps = <<>> THEN [m EXCEPT !.outcome = "constructed"]
        ELSE LET step == Head(steps)
                 n == IF step = "connect" THEN [m EXCEPT !.connects = @ + 1] ELSE m
             IN  IF StepPasses(n, step)
                   THEN RunInit(n, Tail(steps))
                   ELSE [n EXCEPT !.outcome = step, !.exception = StepRaises(n, step)]

\* no component has been constructed yet
NoConstruction ==
    Construction("none",
                 [user |-> "set", password |-> "set", host |-> "set", vhost |-> "set"],
                 "set", TRUE, TRUE, TRUE)

\* a caller constructs a component
Construct ==
    LET Configs == [user : Given, password : Given, host : Given, vhost : Given]
    IN
        /\ made.component = "none"
        /\ \E component \in Components, config \in Configs, setting \in {"absent", "set"},
              key_ok \in BOOLEAN, callable \in BOOLEAN, broker_up \in BOOLEAN :
             made' = RunInit(Construction(component, config, setting, key_ok, callable,
                                          broker_up),
                             InitOrder(component))
        /\ UNCHANGED <<pub, pcall, sub, scall, broker, rpc, codec, race, send>>

(***************************************************************************)
(*                        adero Publisher                                  *)
(***************************************************************************)

\* Publisher.__init__: retry_count = 1, upper-cased names, then a successful
\* connect.  slept counts the backoff sleeps of the instance since then.
PublisherInit ==
    [retry_count |-> 1, slept |-> 0, queue_name |-> Upper(<<"q">>),
     exchange |-> Upper(RawExchange),
     connection_closed |-> FALSE, channel_closed |-> FALSE,
     channel_current |-> TRUE,
     declared |-> TopologyOf(Upper(RawExchange), {Upper(<<"q">>)})]


PCallIdle(n, res, cause) ==
    [pc |-> "idle", callno |-> n, depth |-> 0, attempts |-> 0, failures |-> 0,
     handed |-> 0, sleeps |-> <<>>, result |-> res, cause |-> cause,
     err |-> "none", data_ok |-> TRUE, props_ok |-> TRUE, reconnects |-> 0,
     drops |-> 0, start_retry_count |-> 0, attempt |-> NoAttempt]

\* a test with twice the limit
MayRetryPublishTwiceAsOften(retry_count) == retry_count <= 2 * MaxRetryCount

\* a test that lets one more retry through
MayRetryPublishOnceMore(retry_count) == retry_count <= MaxRetryCount + 1

\* the handler's test  self.retry_count <= 5
MayRetryPublish(retry_count) == retry_count <= MaxRetryCount

\* a fixed wait, whatever the attempt
BackoffWaitFixed(retry_count) == WaitTime

\* wait_time = 60; wait_time *= self.retry_count
BackoffWait(retry_count) == WaitTime * retry_count

\* the caller invokes publish(data, message_properties)
PublishCall ==
    /\ pcall.pc = "idle"
    /\ pcall.callno < MaxCalls
    /\ \E d \in BOOLEAN, p \in BOOLEAN :
         pcall' = [PCallIdle(pcall.callno + 1, "none", "none") EXCEPT
                      !.pc = "try", !.depth = 1, !.data_ok = d, !.props_ok = p,
                      !.start_retry_count = pub.retry_count]
    /\ UNCHANGED <<pub, sub, scall, broker, rpc, made, codec, race, send>>

\* the call (every frame of it) returns or raises to the caller
PFinish(res, cause) ==
    [pcall EXCEPT !.pc = "idle", !.depth = 0, !.result = res, !.cause = cause]

\* the type check passing whatever it is given
PropsNeverRejected(props_ok) == FALSE

\* if not isinstance(message_properties, dict)
PropsRejected(props_ok) == ~props_ok

\* every exception taken for a broker error
ExceptHandlerAlwaysRetries(exc) == "except_amqp"

\* the except clause that takes an exception raised in the try block:
\* except AMQPError first, except Exception for everything else
ExceptHandler(exc) ==
    IF IsInstance(exc, "AMQPError") THEN "except_amqp" ELSE "except_exception"

\* the body of the try block of one publish() frame
PublishTry ==
    LET \* what the Publisher's create_connection_to_rabbitmq_host declares
        PublisherTopology(p) == TopologyOf(p.exchange, {p.queue_name})
    IN
        /\ pcall.pc = "try"
        /\ LET rec == NeedsReconnect(pub)
               topology == PublisherTopology(pub)
               p1 == IF rec THEN Reconnect(pub, "none", topology) ELSE pub
               calls == IF rec THEN 1 ELSE 0
           IN
           \/ \* message_properties is not a dict: logged, return
              /\ PropsRejected(pcall.props_ok)
              /\ pcall' = PFinish("noop", "none")
              /\ UNCHANGED pub
           \/ \* the lazy reconnect raises
              /\ ~PropsRejected(pcall.props_ok)
              /\ rec
              /\ \E step \in ConnectSteps, e \in ConnectErrors :
                   /\ pub' = Reconnect(pub, step, topology)
                   /\ pcall' = [pcall EXCEPT !.pc = ExceptHandler(e), !.err = e,
                                   !.attempts = @ + 1, !.failures = @ + 1,
                                   !.reconnects = @ + 1,
                                   !.attempt = Attempt(pub, step, topology, "none")]
           \/ \* (reconnected if needed) encoding, encrypting or building the
              \* message raises
              /\ ~PropsRejected(pcall.props_ok)
              /\ ~pcall.data_ok
              /\ pub' = p1
              /\ LET e == "RabbitSerializerException"
                     n == [pcall EXCEPT !.reconnects = @ + calls, !.err = e,
                              !.attempt = Attempt(pub, "none", topology, "none")]
                 IN  pcall' = IF ExceptHandler(e) = "except_amqp"
                                THEN [n EXCEPT !.pc = "except_amqp"]
                                ELSE [n EXCEPT !.pc = "idle", !.depth = 0,
                                               !.result = "swallowed"]
           \/ \* basic_publish raises
              /\ ~PropsRejected(pcall.props_ok)
              /\ pcall.data_ok
              /\ \E e \in ChannelErrors, lost \in {"nothing", "channel", "connection"} :
                   /\ pub' = [p1 EXCEPT
                                !.connection_closed = @ \/ (lost = "connection"),
                                !.channel_closed = @ \/ (lost # "nothing")]
                   /\ pcall' = [pcall EXCEPT !.pc = ExceptHandler(e), !.err = e,
                                   !.attempts = @ + 1, !.failures = @ + 1,
                                   !.reconnects = @ + calls,
                                   !.attempt =
                                      Attempt(pub, "none", topology, "basic_publish")]
           \/ \* basic_publish succeeds
              /\ ~PropsRejected(pcall.props_ok)
              /\ pcall.data_ok
              /\ ~p1.connection_closed /\ ~p1.channel_closed
              /\ pub' = p1
              /\ pcall' = [PFinish("returned", "none") EXCEPT
                              !.attempts = @ + 1, !.handed = @ + 1,
                              !.reconnects = @ + calls,
                              !.attempt =
                                 Attempt(pub, "none", topology, "basic_publish")]
        /\ UNCHANGED <<sub, scall, broker, rpc, made, codec, race, send>>

\* except AMQPError as e: sleep and retry, or raise PublisherException from e
PublishExcept ==
    /\ pcall.pc = "except_amqp"
    /\ IF MayRetryPublish(pub.retry_count)
         THEN /\ pcall' = [pcall EXCEPT !.pc = "sleep",
                              !.sleeps = Append(@, BackoffWait(pub.retry_count))]
              /\ pub' = [pub EXCEPT !.slept = @ + 1]
         ELSE /\ pcall' = PFinish("raised", pcall.err)
              /\ UNCHANGED pub
    /\ UNCHANGED <<sub, scall, broker, rpc, made, codec, race, send>>

\* the sleep ends: self.retry_count += 1; return self.publish(...)
PublishRetry ==
    /\ pcall.pc = "sleep"
    /\ pub' = [pub EXCEPT !.retry_count = @ + 1]
    /\ pcall' = [pcall EXCEPT !.pc = "try", !.depth = @ + 1]
    /\ UNCHANGED <<sub, scall, broker, rpc, made, codec, race, send>>

\* the broker or the network drops the publisher's connection or channel
PublisherDrop ==
    /\ pcall.drops < MaxDrops
    /\ ~pub.connection_closed
    /\ \E lost \in {"channel", "connection"} :
         pub' = [pub EXCEPT !.connection_closed = (lost = "connection"),
                            !.channel_closed = TRUE]
    /\ pcall' = [pcall EXCEPT !.drops = @ + 1]
    /\ UNCHANGED <<sub, scall, broker, rpc, made, codec, race, send>>

InitPub ==
    /\ pub = PublisherInit
    /\ pcall = PCallIdle(0, "none", "none")

(***************************************************************************)
(*                     The broker, seen from one consumer                  *)
(***************************************************************************)
\* correlation_id 0 stands for "no correlation_id"
NoProps == [correlation_id |-> 0, reply_to |-> <<>>]

\* Python values as far as the handlers tell them apart: a type and a number
\* ({"n": 4} is Value("dict", 4), "4" is Value("str", 4), 4 is Value("int", 4))
Value(type, val) == [type |-> type, val |-> val]

\* None, and the body of an operation that carries none
NoBody == [fmt |-> "none", type |-> "none", val |-> 0]

\* bytes that neither decrypt nor parse
Garbage == [fmt |-> "garbage", type |-> "none", val |-> 0]

\* json.dumps(v): the JSON text of v, which is not v
JsonDumps(v) == [fmt |-> "json", type |-> v.type, val |-> v.val]

\* json.loads(body), where it does not raise
JsonLoads(body) == Value(body.type, body.val)


\* the correlation_id and the reply queue of an RPC client elsewhere
ForeignProps == [correlation_id |-> 9, reply_to |-> <<"Z">>]


EmptyBroker ==
    [queues |-> <<>>, bindings |-> {}, unacked |-> <<>>, consumers |-> 0,
     declared |-> {}, published_to |-> {}, log |-> <<>>, shutdown |-> <<>>,
     produced |-> 0, discarded |-> 0, unroutable |-> 0]

\* queue_declare(queue=q, durable=True): a no-op on a queue that exists
QueueDeclare(queues, q) ==
    IF q \in DOMAIN queues THEN queues
    ELSE [x \in DOMAIN queues \cup {q} |-> IF x = q THEN <<>> ELSE queues[x]]

\* the queues create_connection_to_rabbitmq_host declares and binds
TopologyQueues(s) ==
    IF s.requeue_msg_to_failed_queue
      THEN {s.queue_name, s.requeue_queue}
      ELSE {s.queue_name}

RECURSIVE DeclareAll(_, _)
DeclareAll(queues, names) ==
    IF names = {} THEN queues
    ELSE LET q == CHOOSE x \in names : TRUE
         IN  DeclareAll(QueueDeclare(queues, q), names \ {q})

\* create_connection_to_rabbitmq_host succeeding, on the broker's side
Declare(b, s) ==
    [b EXCEPT !.queues = DeclareAll(@, TopologyQueues(s)),
              !.bindings = @ \cup {<<s.exchange, q>> : q \in TopologyQueues(s)},
              !.declared = @ \cup TopologyQueues(s),
              !.consumers = 0]

\* messages the queue holds: ready ones and delivered, unsettled ones
Held(b, q) == Len(b.queues[q]) + Len(b.unacked)

\* the channel is gone: the broker puts its unsettled deliveries back
RequeueUnacked(b, q) ==
    [b EXCEPT !.queues[q] = [i \in 1..Len(b.unacked) |-> b.unacked[i].msg] \o @,
              !.unacked = <<>>,
              !.consumers = 0]

Op(name, tag, requeue, exchange, routing_key, body, props) ==
    [op |-> name, delivery_tag |-> tag, requeue |-> requeue, exchange |-> exchange,
     routing_key |-> routing_key, body |-> body, props |-> props]

BasicAck(tag) == Op("basic_ack", tag, FALSE, <<>>, <<>>, NoBody, NoProps)
BasicNack(tag, requeue) == Op("basic_nack", tag, requeue, <<>>, <<>>, NoBody, NoProps)
BasicReject(tag, requeue) == Op("basic_reject", tag, requeue, <<>>, <<>>, NoBody, NoProps)
BasicPublish(exchange, routing_key, body, props) ==
    Op("basic_publish", 0, FALSE, exchange, routing_key, body, props)

Settled(unacked, tag) == SelectSeq(unacked, LAMBDA u : u.tag # tag)

Unsettled(unacked, tag) == SelectSeq(unacked, LAMBDA u : u.tag = tag)

\* what the broker does with one channel operation of a consumer of queue q
ApplyOp(b, q, o) ==
    CASE o.op = "basic_ack" ->
           [b EXCEPT !.unacked = Settled(@, o.delivery_tag)]
      [] o.op \in {"basic_nack", "basic_reject"} ->
           IF o.requeue
             THEN [b EXCEPT
                     !.queues[q] =
                        [i \in 1..Len(Unsettled(b.unacked, o.delivery_tag)) |->
                            Unsettled(b.unacked, o.delivery_tag)[i].msg] \o @,
                     !.unacked = Settled(@, o.delivery_tag)]
             ELSE [b EXCEPT
                     !.discarded = @ + Len(Unsettled(b.unacked, o.delivery_tag)),
                     !.unacked = Settled(@, o.delivery_tag)]
      [] o.op = "basic_publish" ->
           IF <<o.exchange, o.routing_key>> \in b.bindings
             THEN [b EXCEPT
                     !.queues[o.routing_key] =
                        Append(@, [body |-> o.body, props |-> o.props]),
                     !.published_to = @ \cup {o.routing_key}]
             ELSE [b EXCEPT !.unroutable = @ + 1,
                            !.published_to = @ \cup {o.routing_key}]
      [] OTHER -> b

RECURSIVE ApplyOps(_, _, _)
ApplyOps(b, q, ops) ==
    IF ops = <<>> THEN b
    ELSE ApplyOps(ApplyOp(b, q, Head(ops)), q, Tail(ops))

(***************************************************************************)
(*        Subscriber (adero and plain) and RPCServer: construction         *)
(***************************************************************************)
Variants == {"adero", "plain", "rpc"}

\* RABBIT_CONNECTION_CLOSED_RETRY as configured, or its default
ConfiguredRetries == (0..MaxBudget) \cup {DefaultRetries}

\* the adero Subscriber's choice of its dead-letter destination
RequeueToFailedQueue(queue_name) == ~Contains(queue_name, Marker)

\* the marker added without looking at the name
RequeueQueueAlwaysPrefixed(queue_name) == Marker \o queue_name

RequeueQueue(queue_name) ==
    IF ~Contains(queue_name, Marker) THEN Marker \o queue_name ELSE queue_name


\* __init__ up to the (successful) first connect.  The plain Subscriber and
\* the RPCServer have no dead-letter destination.
SubscriberInit(variant, raw_queue, raw_exchange, retries) ==
    [variant |-> variant,
     retries |-> retries,
     budget |-> retries,
     retried |-> 0,
     queue_name |-> Upper(raw_queue),
     exchange |-> Upper(raw_exchange),
     requeue_msg_to_failed_queue |->
         IF variant = "adero" THEN RequeueToFailedQueue(Upper(raw_queue)) ELSE FALSE,
     requeue_queue |->
         IF variant = "adero" THEN RequeueQueue(Upper(raw_queue)) ELSE Upper(raw_queue),
     connection_closed |-> FALSE,
     channel_closed |-> FALSE,
     channel_current |-> TRUE,
     declared |->
         TopologyOf(Upper(raw_exchange),
                    IF variant = "adero" /\ RequeueToFailedQueue(Upper(raw_queue))
                      THEN {Upper(raw_queue), RequeueQueue(Upper(raw_queue))}
                      ELSE {Upper(raw_queue)})]


SCallIdle ==
    LET NoDelivery ==
            [tag |-> 0, msg |-> [body |-> NoBody, props |-> NoProps], outcome |-> "none",
             held_before |-> 0, held_after |-> 0, handler_calls |-> 0,
             handler_arg |-> Value("none", 0), channel_declared |-> {}, logged |-> <<>>]
    IN
        [pc |-> "idle", callno |-> 0, depth |-> 0, attempts |-> 0, failures |-> 0,
         sleeps |-> <<>>, result |-> "none", err |-> "none", start_retries |-> 0,
         deliveries |-> 0, last |-> NoDelivery, interrupted_at |-> "none",
         attempt |-> NoAttempt, prev |-> "none"]

(***************************************************************************)
(*                        The message handlers                             *)
(***************************************************************************)
\* decipher_message + decode_data (adero), json.loads (plain, rpc)
Decodable(body) == body.fmt # "garbage"


IntOf(v) == Value("int", v.val)

\* decipher_message, then decode_data, where neither raises
DecodeData(body) == Value(body.type, body.val)

\* what each handler passes to the processing function (the adero callback
\* wraps the data: {"data": data, "properties": props})
HandlerArg(variant, body) ==
    CASE variant = "rpc"   -> IntOf(JsonLoads(body))
      [] variant = "plain" -> JsonLoads(body)
      [] OTHER             -> Value("dict", DecodeData(body).val)

\* the processing function an RPCServer is given: here, the square
Processor(v) == Value("int", v.val * v.val)


\* callback variants with one slip each, used to test the claims' formulas
AderoCallbackNoAck(s, tag, msg, ok) ==
    IF ok
      THEN << >>
      ELSE IF s.requeue_msg_to_failed_queue
             THEN << BasicNack(tag, FALSE),
                     BasicPublish(s.exchange, s.requeue_queue, msg.body, msg.props) >>
             ELSE << BasicReject(tag, TRUE) >>

AderoCallbackNackRequeues(s, tag, msg, ok) ==
    IF ok
      THEN << BasicAck(tag) >>
      ELSE IF s.requeue_msg_to_failed_queue
             THEN << BasicNack(tag, TRUE),
                     BasicPublish(s.exchange, s.requeue_queue, msg.body, msg.props) >>
             ELSE << BasicReject(tag, TRUE) >>

AderoCallbackRejectDrops(s, tag, msg, ok) ==
    IF ok
      THEN << BasicAck(tag) >>
      ELSE IF s.requeue_msg_to_failed_queue
             THEN << BasicNack(tag, FALSE),
                     BasicPublish(s.exchange, s.requeue_queue, msg.body, msg.props) >>
             ELSE << BasicReject(tag, FALSE) >>

\* adero Subscriber.callback once the processing function has returned ok
AderoCallback(s, tag, msg, ok) ==
    IF ok
      THEN << BasicAck(tag) >>
      ELSE IF s.requeue_msg_to_failed_queue
             THEN << BasicNack(tag, FALSE),
                     BasicPublish(s.exchange, s.requeue_queue, msg.body, msg.props) >>
             ELSE << BasicReject(tag, TRUE) >>

\* the failure branch only logging
PlainCallbackOnlyLogs(s, tag, msg, ok) ==
    IF ok THEN << BasicAck(tag) >> ELSE << >>

\* a nack that drops the message
PlainCallbackNackDrops(s, tag, msg, ok) ==
    IF ok THEN << BasicAck(tag) >> ELSE << BasicNack(tag, FALSE) >>

\* messaging_utility Subscriber.callback; basic_nack requeues by default
PlainCallback(s, tag, msg, ok) ==
    IF ok THEN << BasicAck(tag) >> ELSE << BasicNack(tag, TRUE) >>

\* RPCServer.on_request
OnRequest(s, tag, msg, ok) ==
    LET \* the reply body RPCServer.on_request computes for a request
        Response(body) == JsonDumps(Processor(IntOf(JsonLoads(body))))
    IN
        << BasicPublish(s.exchange, msg.props.reply_to, Response(msg.body),
                        [correlation_id |-> msg.props.correlation_id, reply_to |-> <<>>]),
           BasicAck(tag) >>

HandlerOps(s, tag, msg, ok) ==
    CASE s.variant = "adero" -> AderoCallback(s, tag, msg, ok)
      [] s.variant = "plain" -> PlainCallback(s, tag, msg, ok)
      [] OTHER               -> OnRequest(s, tag, msg, ok)

(***************************************************************************)
(*                       consume() / listen()                              *)
(***************************************************************************)
\* the narrow clause of the plain variants, in every variant
ExceptClauseNarrow(variant) == {"ConnectionClosed", "ChannelClosed"}

\* the classes named by the except clause that guards the consume loop
ExceptClause(variant) ==
    IF variant = "adero" THEN {"AMQPError"} ELSE {"ConnectionClosed", "ChannelClosed"}

\* a clause that takes whatever is raised (except Exception)
CatchesEverything(variant, err) == TRUE

\* whether the except clause of consume() / listen() takes an exception
\* raised inside its try block
Catches(variant, err) == \E cls \in ExceptClause(variant) : IsInstance(err, cls)

\* the levels of the LOGGER calls a handler makes on one delivery, by how
\* the delivery went: the adero callback logs after the processing function
\* returned (debug before basic_ack, error after the dead-letter operations),
\* the plain callback before it settles, on_request before and after the
\* processing function; none of them logs an exception
HandlerLog(variant, outcome) ==
    CASE variant = "adero" ->
           CASE outcome \in {"true", "true_failed"} -> <<"debug", "debug", "debug">>
             [] outcome = "false"                   -> <<"error", "error", "error">>
             [] OTHER                               -> <<>>
      [] variant = "plain" ->
           CASE outcome \in {"true", "true_failed"}   -> <<"info">>
             [] outcome \in {"false", "false_failed"} -> <<"warning">>
             [] OTHER                                 -> <<>>
      [] OTHER ->
           CASE outcome = "undecodable"            -> <<>>
             [] outcome \in {"type_error", "raise"} -> <<"info">>
             [] OTHER                              -> <<"info", "info">>

\* what a failing step of a handler raises: none of them is a pika error
HandlerError(outcome) ==
    CASE outcome = "undecodable" -> "InvalidToken"
      [] outcome = "type_error"  -> "TypeError"
      [] OTHER                   -> "Exception"

\* the test written on the truth value of the counter (if self.retries:)
MayRetryConsumeNonZero(retries) == retries # 0

\* the test off by one
MayRetryConsumeOffByOne(retries) == retries >= 0

\* the handler's test  self.retries > 0
MayRetryConsume(retries) == retries > 0


\* only the adero Subscriber waits (time.sleep(5)) before it retries
Sleeps(variant) == variant = "adero"

\* the call is over: every frame returns, or the exception leaves every frame
SFinish(res) ==
    [scall EXCEPT !.pc = "idle", !.depth = 0, !.result = res, !.attempt = NoAttempt]

\* the caller invokes consume() / listen()
ConsumeCall ==
    /\ scall.pc = "idle"
    /\ scall.callno < MaxConsumeCalls
    /\ scall' = [scall EXCEPT !.pc = "try", !.callno = @ + 1, !.depth = 1,
                    !.attempts = 0, !.failures = 0, !.sleeps = <<>>,
                    !.result = "none", !.err = "none", !.attempt = NoAttempt,
                    !.start_retries = sub.retries, !.interrupted_at = "none",
                    !.prev = IF scall.result \in {"dormant", "closed"}
                               THEN scall.result ELSE "none"]
    /\ broker' = [broker EXCEPT !.shutdown = <<>>]
    /\ UNCHANGED <<pub, pcall, sub, rpc, made, codec, race, send>>

\* the try block of one frame, up to the entry into start_consuming
ConsumeTry ==
    LET \* what the Subscriber's / RPCServer's create_connection_to_rabbitmq_host
        \* declares
        SubscriberTopology(s) == TopologyOf(s.exchange, TopologyQueues(s))
    IN
        /\ scall.pc = "try"
        /\ LET rec == NeedsReconnect(sub)
               topology == SubscriberTopology(sub)
               s1 == IF rec THEN Reconnect(sub, "none", topology) ELSE sub
               b1 == IF rec THEN Declare(broker, sub) ELSE broker
           IN
           \/ \* the lazy reconnect raises
              /\ rec
              /\ \E step \in ConnectSteps, e \in ConnectErrors :
                   /\ sub' = Reconnect(sub, step, topology)
                   /\ scall' = [scall EXCEPT !.pc = "raised", !.err = e,
                                   !.attempts = @ + 1, !.failures = @ + 1,
                                   !.attempt = Attempt(sub, step, topology, "none")]
              /\ UNCHANGED broker
           \/ \* (reconnected if needed) basic_consume raises
              \E e \in ChannelErrors, lost \in {"nothing", "channel", "connection"} :
                   /\ sub' = [s1 EXCEPT
                                !.connection_closed = @ \/ (lost = "connection"),
                                !.channel_closed = @ \/ (lost # "nothing")]
                   /\ scall' = [scall EXCEPT !.pc = "raised", !.err = e,
                                   !.attempts = @ + 1, !.failures = @ + 1,
                                   !.attempt =
                                      Attempt(sub, "none", topology, "basic_consume")]
                   /\ broker' = IF lost = "nothing" THEN b1
                                ELSE RequeueUnacked(b1, sub.queue_name)
           \/ \* basic_consume registers the handler; start_consuming blocks
              /\ ~s1.connection_closed /\ ~s1.channel_closed
              /\ sub' = s1
              /\ scall' = [scall EXCEPT !.pc = "consuming", !.attempts = @ + 1,
                              !.attempt =
                                 Attempt(sub, "none", topology, "basic_consume")]
              /\ broker' = [b1 EXCEPT !.consumers = @ + 1]
        /\ UNCHANGED <<pub, pcall, rpc, made, codec, race, send>>

\* start_consuming raises a broker error
BrokerDisconnect ==
    /\ scall.pc = "consuming"
    /\ \E e \in ChannelErrors, lost \in {"nothing", "channel", "connection"} :
         /\ sub' = [sub EXCEPT !.connection_closed = (lost = "connection"),
                               !.channel_closed = (lost # "nothing")]
         /\ scall' = [scall EXCEPT !.pc = "raised", !.err = e, !.failures = @ + 1,
                                   !.attempt = NoAttempt]
         /\ broker' = IF lost = "nothing" THEN broker
                      ELSE RequeueUnacked(broker, sub.queue_name)
    /\ UNCHANGED <<pub, pcall, rpc, made, codec, race, send>>

\* a retry that leaves the counter as it is
DecrementSkipped(retries) == retries

\* self.retries -= 1
Decrement(retries) == retries - 1

\* the except clause meets the broker error raised in the try block
ConsumeExcept ==
    /\ scall.pc = "raised"
    /\ \/ \* the error is of no class the clause names: it leaves consume()
          /\ ~Catches(sub.variant, scall.err)
          /\ scall' = SFinish("raised_amqp")
          /\ UNCHANGED sub
       \/ \* retries left, adero: time.sleep(5) first
          /\ Catches(sub.variant, scall.err)
          /\ MayRetryConsume(sub.retries)
          /\ Sleeps(sub.variant)
          /\ scall' = [scall EXCEPT !.pc = "sleeping", !.attempt = NoAttempt,
                                    !.sleeps = Append(@, RebootDelay)]
          /\ UNCHANGED sub
       \/ \* retries left, plain variants: self.retries -= 1 and recurse at once
          /\ Catches(sub.variant, scall.err)
          /\ MayRetryConsume(sub.retries)
          /\ ~Sleeps(sub.variant)
          /\ sub' = [sub EXCEPT !.retries = Decrement(@), !.retried = @ + 1]
          /\ scall' = [scall EXCEPT !.pc = "try", !.depth = @ + 1, !.err = "none",
                                    !.attempt = NoAttempt]
       \/ \* no retries left: log, and every frame returns
          /\ Catches(sub.variant, scall.err)
          /\ ~MayRetryConsume(sub.retries)
          /\ scall' = SFinish("dormant")
          /\ UNCHANGED sub
    /\ UNCHANGED <<pub, pcall, broker, rpc, made, codec, race, send>>

\* the sleep ends: self.retries -= 1; self.consume()
ConsumeRetry ==
    /\ scall.pc = "sleeping"
    /\ sub' = [sub EXCEPT !.retries = Decrement(@), !.retried = @ + 1]
    /\ scall' = [scall EXCEPT !.pc = "try", !.depth = @ + 1, !.err = "none"]
    /\ UNCHANGED <<pub, pcall, broker, rpc, made, codec, race, send>>

\* the operator presses CTRL+C
KeyboardInterrupt ==
    LET \* where a KeyboardInterrupt finds the frame inside its try block, so that the
        \* frame's own except KeyboardInterrupt clause handles it
        InterruptCaught(pc) == pc \in {"try", "consuming"}
        \* the except KeyboardInterrupt clause
        ShutdownOps == << "stop_consuming", "channel.close", "connection.close" >>
    IN
        /\ scall.pc \in {"try", "consuming", "sleeping"}
        /\ IF InterruptCaught(scall.pc)
             THEN /\ sub' = [sub EXCEPT !.connection_closed = TRUE,
                                        !.channel_closed = TRUE]
                  /\ scall' = [SFinish("closed") EXCEPT !.interrupted_at = scall.pc]
                  /\ broker' = [RequeueUnacked(broker, sub.queue_name) EXCEPT
                                   !.shutdown = ShutdownOps]
             ELSE /\ scall' = [SFinish("interrupted") EXCEPT !.interrupted_at = scall.pc]
                  /\ UNCHANGED <<sub, broker>>
        /\ UNCHANGED <<pub, pcall, rpc, made, codec, race, send>>

\* an outside producer puts a message on the consumed queue
Produce ==
    LET \* the adero Publisher's wire format: msgpack, then Fernet
        Encrypted(v) == [fmt |-> "fernet", type |-> v.type, val |-> v.val]
        \* the messages outside producers send to a consumer of each kind: a pub/sub
        \* message or an RPC request, and one that neither decrypts nor parses
        Messages(variant) ==
            CASE variant = "rpc" ->
                   { [body |-> JsonDumps(Value("int", 4)), props |-> ForeignProps],
                     [body |-> JsonDumps(Value("dict", 4)), props |-> ForeignProps],
                     [body |-> Garbage, props |-> ForeignProps] }
              [] variant = "plain" ->
                   { [body |-> JsonDumps(Value("dict", 1)), props |-> NoProps],
                     [body |-> Garbage, props |-> NoProps] }
              [] OTHER ->
                   { [body |-> Encrypted(Value("dict", 1)), props |-> NoProps],
                     [body |-> Garbage, props |-> NoProps] }
    IN
        /\ broker.produced < MaxQueueLen
        /\ \E m \in Messages(sub.variant) :
             broker' = [broker EXCEPT !.queues[sub.queue_name] = Append(@, m),
                                      !.produced = @ + 1]
        /\ UNCHANGED <<pub, pcall, sub, scall, rpc, made, codec, race, send>>

\* what the handler makes of the value the processing function returned:
\* the callbacks test its truth, on_request sends it back whatever it is
Verdicts(variant) == IF variant = "rpc" THEN {TRUE} ELSE BOOLEAN


\* the broker delivers the next message and the handler runs on it
Deliver ==
    LET \* int(msg) in RPCServer.on_request: a number or a numeric string converts,
        \* anything else raises TypeError
        IntConvertible(v) == v.type \in {"int", "str"}
        \* what is gone when an operation of a handler on the channel raises:
        \* ChannelClosed reports the channel closed, the two others the connection
        LostWith(err) == IF err = "ChannelClosed" THEN "channel" ELSE "connection"
    IN
        /\ scall.pc = "consuming"
        /\ broker.consumers > 0
        /\ scall.deliveries < MaxDeliveries
        /\ broker.queues[sub.queue_name] # <<>>
        /\ LET q == sub.queue_name
               msg == Head(broker.queues[q])
               tag == scall.deliveries + 1
               b1 == [broker EXCEPT !.queues[q] = Tail(@),
                                    !.unacked = Append(@, [tag |-> tag, msg |-> msg]),
                                    !.log = <<>>]
               converts == sub.variant = "rpc" => IntConvertible(JsonLoads(msg.body))
               delivery(outcome, b2, calls) ==
                   [tag |-> tag, msg |-> msg, outcome |-> outcome,
                    held_before |-> Held(broker, q), held_after |-> Held(b2, q),
                    handler_calls |-> calls,
                    handler_arg |-> IF calls = 0 THEN Value("none", 0)
                                    ELSE HandlerArg(sub.variant, msg.body),
                    channel_declared |-> sub.declared,
                    logged |-> HandlerLog(sub.variant, outcome)]
               \* the exception of a failing step leaves the handler and
               \* start_consuming: an except clause of consume() / listen() takes
               \* it, or it leaves the call
               Propagate(outcome) ==
                   IF Catches(sub.variant, HandlerError(outcome))
                   THEN [scall EXCEPT !.pc = "raised", !.err = HandlerError(outcome),
                                      !.failures = @ + 1, !.attempt = NoAttempt]
                   ELSE SFinish("raised_other")
           IN  \/ \* decrypting or decoding raises: the error leaves consume()
                  /\ ~Decodable(msg.body)
                  /\ broker' = b1
                  /\ scall' = [Propagate("undecodable") EXCEPT
                                  !.deliveries = tag,
                                  !.last = delivery("undecodable", b1, 0)]
                  /\ UNCHANGED sub
               \/ \* int(msg) raises TypeError: the error leaves listen()
                  /\ Decodable(msg.body)
                  /\ ~converts
                  /\ broker' = b1
                  /\ scall' = [Propagate("type_error") EXCEPT
                                  !.deliveries = tag,
                                  !.last = delivery("type_error", b1, 0)]
                  /\ UNCHANGED sub
               \/ \* the processing function raises: the error leaves consume()
                  /\ Decodable(msg.body)
                  /\ converts
                  /\ broker' = b1
                  /\ scall' = [Propagate("raise") EXCEPT
                                  !.deliveries = tag,
                                  !.last = delivery("raise", b1, 1)]
                  /\ UNCHANGED sub
               \/ \* the processing function returns
                  /\ Decodable(msg.body)
                  /\ converts
                  /\ \E ok \in Verdicts(sub.variant) :
                       LET ops == HandlerOps(sub, tag, msg, ok)
                           b2 == [ApplyOps(b1, q, ops) EXCEPT !.log = ops]
                       IN  /\ broker' = b2
                           /\ scall' = [scall EXCEPT !.deliveries = tag,
                                           !.attempt = NoAttempt,
                                           !.last = delivery(IF ok THEN "true" ELSE "false",
                                                             b2, 1)]
                  /\ UNCHANGED sub
               \/ \* the processing function returns and one of the handler's
                  \* channel operations raises a broker error, the channel or
                  \* the connection being lost with it: the operations before it
                  \* took effect, the error leaves start_consuming
                  /\ Decodable(msg.body)
                  /\ converts
                  /\ \E ok \in Verdicts(sub.variant), e \in ChannelErrors :
                       LET ops == HandlerOps(sub, tag, msg, ok)
                           lost == LostWith(e)
                       IN  \E k \in 1..Len(ops) :
                             LET done == SubSeq(ops, 1, k - 1)
                                 b2 == RequeueUnacked(
                                         [ApplyOps(b1, q, done) EXCEPT !.log = done], q)
                             IN  /\ broker' = b2
                                 /\ sub' = [sub EXCEPT
                                              !.connection_closed = (lost = "connection"),
                                              !.channel_closed = TRUE]
                                 /\ scall' = [scall EXCEPT
                                                !.pc = "raised", !.err = e,
                                                !.failures = @ + 1,
                                                !.deliveries = tag,
                                                !.attempt = NoAttempt,
                                                !.last = delivery(IF ok THEN "true_failed"
                                                                  ELSE "false_failed",
                                                                  b2, 1)]
        /\ UNCHANGED <<pub, pcall, rpc, made, codec, race, send>>

(***************************************************************************)
(*                             RPCClient                                   *)
(***************************************************************************)
MaxRpcCalls == 2     \* call() invocations on one RPCClient
MaxStrays == 1       \* replies that answer no call in progress


\* RPCClient.__init__, create_connection_to_rabbitmq_host and init_consumer
\* having succeeded
RPCClientInit(raw_queue, raw_exchange) ==
    LET \* the name the broker gives the client's exclusive reply queue
        CallbackQueue == <<"R">>
    IN
        [queue_name |-> Upper(raw_queue), exchange |-> Upper(raw_exchange),
         callback_queue |-> CallbackQueue, response |-> NoBody, corr_id |-> 0,
         pc |-> "idle", callno |-> 0, payload |-> Value("none", 0),
         result |-> "none", returned |-> NoBody, matched |-> FALSE,
         mismatched |-> 0, stored_id |-> 0, strays |-> 0]


\* on_response storing whatever arrives
OnResponseStoresAny(c, reply) ==
    [c EXCEPT !.response = reply.body,
              !.stored_id = reply.props.correlation_id,
              !.matched = @ \/ (c.corr_id = reply.props.correlation_id),
              !.mismatched = @ + (IF c.corr_id = reply.props.correlation_id
                                    THEN 0 ELSE 1)]

\* RPCClient.on_response(ch, method, props, body)
OnResponse(c, reply) ==
    IF c.corr_id = reply.props.correlation_id
      THEN [c EXCEPT !.response = reply.body, !.matched = TRUE,
                     !.stored_id = reply.props.correlation_id]
      ELSE [c EXCEPT !.mismatched = @ + 1]

\* the consumer callback run on each pending delivery, in order
RECURSIVE Dispatch(_, _)
Dispatch(c, replies) ==
    IF replies = <<>> THEN c
    ELSE Dispatch(OnResponse(c, Head(replies)), Tail(replies))

\* call(data) up to its wait: clear response, draw a fresh correlation id,
\* publish the request
ClientCall ==
    LET \* the payloads callers pass to call(): {"n": 4}, 4 and "4"
        RpcPayloads == {Value("dict", 4), Value("int", 4), Value("str", 4)}
    IN
        /\ rpc.pc = "idle"
        /\ rpc.callno < MaxRpcCalls
        /\ \E v \in RpcPayloads :
             LET id == rpc.callno + 1
             IN  /\ rpc' = [rpc EXCEPT !.response = NoBody, !.corr_id = id,
                                       !.pc = "waiting", !.callno = id, !.payload = v,
                                       !.result = "none", !.returned = NoBody,
                                       !.matched = FALSE, !.mismatched = 0,
                                       !.stored_id = 0]
                 /\ broker' = ApplyOp(broker, rpc.queue_name,
                                      BasicPublish(rpc.exchange, rpc.queue_name,
                                                   JsonDumps(v),
                                                   [correlation_id |-> id,
                                                    reply_to |-> rpc.callback_queue]))
        /\ UNCHANGED <<pub, pcall, sub, scall, made, codec, race, send>>

\* a wait with a time limit: it also returns when the limit passes with
\* nothing to dispatch
DataEventsReadyOrTimedOut(arrived) == TRUE

\* connection.process_data_events(time_limit=None): blocks until I/O has
\* produced events to dispatch; with no limit the passing of time alone
\* never ends it
DataEventsReady(arrived) == arrived # <<>>

\* the one process_data_events(time_limit=None) of call(): it returns once the
\* deliveries that have arrived (one or more) are dispatched; then call()
\* returns self.response
ProcessDataEvents ==
    /\ rpc.pc = "waiting"
    /\ \E k \in 0..Len(broker.queues[rpc.callback_queue]) :
         LET arrived == SubSeq(broker.queues[rpc.callback_queue], 1, k)
             c == Dispatch(rpc, arrived)
         IN  /\ DataEventsReady(arrived)
             /\ rpc' = [c EXCEPT !.pc = "idle", !.result = "returned",
                                 !.returned = c.response]
             /\ broker' = [broker EXCEPT
                             !.queues[rpc.callback_queue] =
                                SubSeq(@, k + 1, Len(@))]
    /\ UNCHANGED <<pub, pcall, sub, scall, made, codec, race, send>>

\* a reply that answers an earlier call, or none of this client's, reaches
\* the reply queue
StrayReply ==
    /\ rpc.strays < MaxStrays
    /\ \E id \in 0..(rpc.callno - 1) :
         broker' = [broker EXCEPT
                      !.queues[rpc.callback_queue] =
                         Append(@, [body |-> JsonDumps(Value("int", 1)),
                                    props |-> [correlation_id |-> id,
                                               reply_to |-> <<>>]])]
    /\ rpc' = [rpc EXCEPT !.strays = @ + 1]
    /\ UNCHANGED <<pub, pcall, sub, scall, made, codec, race, send>>

(***************************************************************************)
(*        RabbitSerializer (msgpack) and RabbitSecurity (Fernet)           *)
(*                                                                         *)
(* A Python value is a record: its type, a number standing for its         *)
(* content, the type of what a container holds ("none" for a scalar or an  *)
(* empty container; dictionary keys are strings), and, for bytes, what the *)
(* bytes are ("raw" bytes, or the msgpack type they encode).               *)
(***************************************************************************)
PyValue(type, val, elem, wire) ==
    [type |-> type, val |-> val, elem |-> elem, wire |-> wire]

NoValue == PyValue("none", 0, "none", "none")

Contents == 0..1

\* the values a caller may hand to the serializer or to the security layer
PyValues ==
    LET Containers == {"dict", "list", "tuple", "set"}
        Scalars == {"str", "int", "bool", "float", "NoneType", "bytes"}
        ElemTypes == {"none", "int", "str", "list", "tuple", "datetime", "Decimal", "object"}
    IN  {PyValue(t, v, e, "none") : t \in Containers, v \in Contents, e \in ElemTypes}
          \cup {PyValue(t, v, "none", "none") : t \in Scalars \ {"bytes"}, v \in Contents}
          \cup {PyValue("bytes", v, "none", "raw") : v \in Contents}

\* extended_encoder(obj): what msgpack is given for an object it cannot pack
ExtendedEncoder(type) ==
    CASE type = "datetime" -> "str"      \* obj.isoformat()
      [] type = "Decimal"  -> "float"    \* float(obj)
      [] OTHER             -> "str"      \* str(obj)

\* the msgpack type msgpack.packb(.., default=extended_encoder) writes for a
\* Python type: a tuple is written as an array, like a list
WireType(type) ==
    CASE type = "dict"              -> "map"
      [] type \in {"list", "tuple"} -> "array"
      [] type = "str"               -> "str"
      [] type = "int"               -> "int"
      [] type = "bool"              -> "bool"
      [] type = "float"             -> "float"
      [] type = "NoneType"          -> "nil"
      [] type = "bytes"             -> "bin"
      [] type = "none"              -> "none"
      [] OTHER                      -> ExtendedEncoder(type)

\* msgpack.packb(data, default=extended_encoder): bytes
Packb(data) == PyValue("bytes", data.val, WireType(data.elem), WireType(data.type))

\* the Python type msgpack.unpackb(.., raw=False) builds for a msgpack type:
\* every array comes back as a list
PyType(wire) ==
    CASE wire = "map"   -> "dict"
      [] wire = "array" -> "list"
      [] wire = "nil"   -> "NoneType"
      [] wire = "bin"   -> "bytes"
      [] OTHER          -> wire

\* msgpack.unpackb raises on bytes that are no msgpack document
Unpackable(data) == data.type = "bytes" /\ data.wire # "raw"

\* msgpack.unpackb(data, raw=False), where it does not raise
Unpackb(data) ==
    PyValue(PyType(data.wire), data.val, PyType(data.elem),
            IF data.wire = "bin" THEN "raw" ELSE "none")

\* isinstance(data, (tuple, list, str, dict, int)); bool is a subclass of int
SerializerAccepts(data) == data.type \in {"tuple", "list", "str", "dict", "int", "bool"}

\* the outcome of one call of the serializer or of the security layer: the
\* value it returns, or the exception it raises
Returns(value) == [err |-> "none", value |-> value]
Raises(err) == [err |-> err, value |-> NoValue]

\* RabbitSerializer.encode_data
EncodeData(data) ==
    IF SerializerAccepts(data)
    THEN Returns(Packb(data))
    ELSE Raises("RabbitSerializerException")

\* RabbitSerializer.decode_data
UnpackData(data) ==
    IF Unpackable(data) THEN Returns(Unpackb(data)) ELSE Raises("UnpackException")

\* isinstance(message, bytes) in encrypt_message and decipher_message
IsBytesOrStr(message) == message.type \in {"bytes", "str"}

IsBytes(message) == message.type = "bytes"

\* a Fernet token: bytes that hold the message under the key, with the
\* initialisation vector Fernet draws afresh for every token
Keys == {"k1", "k2"}
FernetToken(key, iv, message) ==
    [type |-> "bytes", key |-> key, iv |-> iv, message |-> message]
NoToken == FernetToken("none", 0, NoValue)

\* RabbitSecurity.encrypt_message on an instance that holds key
EncryptMessage(key, iv, message) ==
    IF IsBytes(message)
    THEN [err |-> "none", token |-> FernetToken(key, iv, message)]
    ELSE [err |-> "RabbitSecurityException", token |-> NoToken]

\* Fernet(key).decrypt(token): the message, for a token made under this key
FernetDecrypt(key, token) ==
    IF token.key = key THEN Returns(token.message) ELSE Raises("InvalidToken")

\* RabbitSecurity.decipher_message on a token
DecipherMessage(key, token) == FernetDecrypt(key, token)

\* RabbitSecurity.decipher_message on a value that is not a token: not bytes,
\* or bytes that Fernet rejects
DecipherValue(message) ==
    IF IsBytes(message) THEN Raises("InvalidToken")
    ELSE Raises("RabbitSecurityException")

\* one use of the two utilities: the value handed in, the steps taken on it
\* and what each produced
CodecStart(input, key) ==
    [pc |-> "start", input |-> input, key |-> key, steps |-> <<>>,
     packed |-> NoValue, plain |-> NoValue, token |-> NoToken,
     opened |-> NoValue, output |-> NoValue, err |-> "none"]

NoCodec == CodecStart(NoValue, "none")

CodecStep(c, pc, step, err) ==
    [c EXCEPT !.pc = IF err = "none" THEN pc ELSE "raised",
              !.steps = Append(c.steps, step), !.err = err]

\* serializer.encode_data(input)
StepEncodeData ==
    /\ codec.pc = "start"
    /\ LET r == EncodeData(codec.input)
       IN  codec' = [CodecStep(codec, "packed", "encode_data", r.err) EXCEPT
                        !.packed = r.value]
    /\ UNCHANGED <<pub, pcall, sub, scall, broker, rpc, made, race, send>>

\* security.encrypt_message(..) of the packed payload, as Publisher.publish
\* does, or of the value handed in
StepEncrypt ==
    LET Nonces == 0..1
    IN
        /\ codec.pc \in {"start", "packed"}
        /\ \E iv \in Nonces :
             LET message == IF codec.pc = "packed" THEN codec.packed ELSE codec.input
                 r == EncryptMessage(codec.key, iv, message)
             IN  codec' = [CodecStep(codec, "sealed", "encrypt_message", r.err) EXCEPT
                              !.plain = message, !.token = r.token]
        /\ UNCHANGED <<pub, pcall, sub, scall, broker, rpc, made, race, send>>

\* security.decipher_message(..) of the token, on an instance that holds the
\* key of the sender or another one, or of the value handed in
StepDecipher ==
    /\ \/ /\ codec.pc = "sealed"
          /\ \E key \in Keys :
               LET r == DecipherMessage(key, codec.token)
               IN  codec' = [CodecStep(codec, "opened", "decipher_message", r.err)
                                EXCEPT !.opened = r.value, !.key = key]
       \/ /\ codec.pc = "start"
          /\ LET r == DecipherValue(codec.input)
             IN  codec' = CodecStep(codec, "opened", "decipher_message", r.err)
    /\ UNCHANGED <<pub, pcall, sub, scall, broker, rpc, made, race, send>>

\* serializer.decode_data(..) of the packed payload, of the deciphered one as
\* Subscriber.callback does, or of the value handed in
StepDecodeData ==
    /\ codec.pc \in {"start", "packed", "opened"}
    /\ LET data == CASE codec.pc = "packed" -> codec.packed
                     [] codec.pc = "opened" -> codec.opened
                     [] OTHER               -> codec.input
           r == UnpackData(data)
       IN  codec' = [CodecStep(codec, "done", "decode_data", r.err) EXCEPT
                        !.output = r.value]
    /\ UNCHANGED <<pub, pcall, sub, scall, broker, rpc, made, race, send>>

(***************************************************************************)
(*          Two threads sharing one Subscriber or one Publisher            *)
(*                                                                         *)
(* Nothing in consume() or publish() locks the instance.  A thread tests   *)
(* the counter, sleeps, and only then updates it; the update itself        *)
(* (self.retries -= 1, self.retry_count += 1) reads the attribute and      *)
(* writes it back in two steps, between which the other thread may run.    *)
(***************************************************************************)
Threads == {"t1", "t2"}


\* the shared instance as constructed, no thread having called it yet:
\* kind is "consume" (an adero Subscriber, counter = retries) or "publish"
\* (an adero Publisher, counter = retry_count)
RaceStart(kind, budget) ==
    [kind |-> kind, budget |-> budget,
     counter |-> IF kind = "publish" THEN 1 ELSE budget,
     pc |-> [t \in Threads |-> "idle"],
     read |-> [t \in Threads |-> 0],
     retried |-> 0, overlapped |-> FALSE]

NoRace == RaceStart("none", 0)


RaceUnchanged ==
    UNCHANGED <<pub, pcall, sub, scall, broker, rpc, made, codec, send>>

\* thread t calls consume() / publish() on the shared instance
RaceCall(t) ==
    /\ race.pc[t] = "idle"
    /\ race' = [race EXCEPT !.pc[t] = "try"]
    /\ RaceUnchanged

\* the try block of t's frame raises a broker error
RaceTryRaises(t) ==
    /\ race.pc[t] = "try"
    /\ race' = [race EXCEPT !.pc[t] = "except"]
    /\ RaceUnchanged

\* the try block of t's frame goes through: the message is published, or
\* the thread blocks in start_consuming
RaceTryPasses(t) ==
    /\ race.pc[t] = "try"
    /\ race' = [race EXCEPT !.pc[t] = IF race.kind = "publish" THEN "returned"
                                     ELSE "consuming"]
    /\ RaceUnchanged

\* start_consuming raises a broker error in t
RaceDisconnect(t) ==
    /\ race.pc[t] = "consuming"
    /\ race' = [race EXCEPT !.pc[t] = "except"]
    /\ RaceUnchanged

\* except AMQPError in t: the test of the counter; past it the thread sleeps
RaceCheck(t) ==
    LET \* the test that guards the retry, on the counter as the thread finds it
        MayRetry(kind, counter) ==
            IF kind = "publish" THEN MayRetryPublish(counter) ELSE MayRetryConsume(counter)
        \* a thread is past the test and has not yet written the counter
        InUpdate(pc) == pc \in {"sleeping", "read"}
        other == CHOOSE u \in Threads : u # t
    IN  /\ race.pc[t] = "except"
        /\ race' = IF MayRetry(race.kind, race.counter)
                     THEN [race EXCEPT !.pc[t] = "sleeping",
                                       !.overlapped = @ \/ InUpdate(race.pc[other])]
                     ELSE [race EXCEPT !.pc[t] = IF race.kind = "publish" THEN "raised"
                                                 ELSE "dormant"]
        /\ RaceUnchanged

\* the sleep of t is over: the update reads the counter
RaceRead(t) ==
    /\ race.pc[t] = "sleeping"
    /\ race' = [race EXCEPT !.pc[t] = "read", !.read[t] = race.counter]
    /\ RaceUnchanged

\* the update writes the counter, and t calls consume() / publish() again
RaceWrite(t) ==
    /\ race.pc[t] = "read"
    /\ race' = [race EXCEPT
                  !.counter = IF race.kind = "publish" THEN race.read[t] + 1
                              ELSE race.read[t] - 1,
                  !.retried = @ + 1,
                  !.pc[t] = "try"]
    /\ RaceUnchanged


(***************************************************************************)
(*        What a Publisher hands to basic_publish                          *)
(*                                                                         *)
(* One Publisher ("adero" or "plain") built from the names its caller      *)
(* gave, and one publish(data, message_properties) on it with the broker   *)
(* up and the payload encodable: the names it keeps, the properties it     *)
(* builds and the arguments of the basic_publish it issues.  A dict is a   *)
(* function from its keys to its values.                                   *)
(***************************************************************************)
\* the exchange names callers pass
RawExchanges == { <<"e", "x">>, <<"E", "x">> }

\* keyword arguments pika.BasicProperties accepts (those used here)
BasicPropertiesFields ==
    {"delivery_mode", "expiration", "timestamp", "content_encoding", "priority"}


EmptyDict == [k \in {} |-> "none"]

MessageProperties ==
    LET \* message_properties as passed: a dict, or something else (a list)
        Dicts ==
            LET \* keys a caller may put in message_properties; "ttl" is no property
                CallerKeys == BasicPropertiesFields \cup {"ttl"}
            IN
                UNION {[K -> {"given"}] : K \in SUBSET CallerKeys}
    IN
        {[is_dict |-> TRUE, items |-> d] : d \in Dicts}
           \cup {[is_dict |-> FALSE, items |-> EmptyDict]}


\* an update that keeps what the dict already has
UpdateKeepsExisting(d, m) ==
    [k \in DOMAIN d \cup DOMAIN m |-> IF k \in DOMAIN d THEN d[k] ELSE m[k]]

\* d.update(m)
Update(d, m) ==
    [k \in DOMAIN d \cup DOMAIN m |-> IF k \in DOMAIN m THEN m[k] ELSE d[k]]

\* the msg_props literal: delivery_mode PERSISTENT_DELIVERY_MODE (2),
\* expiration str(24 * 60 * 60 * 1000), timestamp int(time()), and in the
\* plain Publisher content_encoding
DefaultProps(variant, items) ==
    LET \* dict.get(key, default)
        Get(d, key, default) == IF key \in DOMAIN d THEN d[key] ELSE default
        common == [k \in {"delivery_mode", "expiration", "timestamp"} |->
                     CASE k = "delivery_mode" -> "2"
                       [] k = "expiration" -> "86400000"
                       [] OTHER -> "now"]
    IN  IF variant = "plain"
          THEN Update(common,
                      [k \in {"content_encoding"} |->
                          Get(items, "content_encoding", "utf-8")])
          ELSE common

\* msg_props.update(message_properties) if message_properties else ...
MsgProps(variant, items) ==
    IF items # EmptyDict THEN Update(DefaultProps(variant, items), items)
    ELSE DefaultProps(variant, items)

\* pika.BasicProperties(**msg_props) takes its fields only
BasicPropertiesAccepts(msg_props) == DOMAIN msg_props \subseteq BasicPropertiesFields

\* the names kept as the caller gave them
NamesAsGiven(raw_queue, raw_exchange) ==
    [queue_name |-> raw_queue, exchange |-> raw_exchange]

\* self.queue_name = queue_name.upper(); self.exchange = exchange.upper()
Names(raw_queue, raw_exchange) ==
    [queue_name |-> Upper(raw_queue), exchange |-> Upper(raw_exchange)]


SendStart(variant, raw_queue, raw_exchange, message_properties) ==
    LET NoArgs ==
            [exchange |-> <<>>, routing_key |-> <<>>, mandatory |-> FALSE,
             properties |-> EmptyDict]
    IN
        [pc |-> "new", variant |-> variant, raw_queue |-> raw_queue,
         raw_exchange |-> raw_exchange, message_properties |-> message_properties,
         queue_name |-> <<>>, exchange |-> <<>>, declared |-> {},
         msg_props |-> EmptyDict, args |-> NoArgs, err |-> "none"]

NoSend == SendStart("none", <<>>, <<>>, [is_dict |-> FALSE, items |-> EmptyDict])

SendUnchanged ==
    UNCHANGED <<pub, pcall, sub, scall, broker, rpc, made, codec, race>>

\* Publisher.__init__ with a complete configuration and the broker up
SendConstruct ==
    /\ send.pc = "new"
    /\ LET n == Names(send.raw_queue, send.raw_exchange)
       IN  send' = [send EXCEPT !.pc = "constructed",
                                !.queue_name = n.queue_name,
                                !.exchange = n.exchange,
                                !.declared = TopologyOf(n.exchange, {n.queue_name})]
    /\ SendUnchanged

\* publish() up to the arguments of basic_publish
SendBuild ==
    /\ send.pc = "constructed"
    /\ LET mp == send.message_properties
       IN
       \/ \* adero: message_properties is not a dict, logged, return
          /\ send.variant = "adero" /\ PropsRejected(mp.is_dict)
          /\ send' = [send EXCEPT !.pc = "noop"]
       \/ \* plain: message_properties.get on something that has no get
          /\ send.variant = "plain" /\ ~mp.is_dict
          /\ send' = [send EXCEPT !.pc = "raised", !.err = "AttributeError"]
       \/ /\ mp.is_dict
          /\ send' = [send EXCEPT !.pc = "built",
                                   !.msg_props = MsgProps(send.variant, mp.items)]
    /\ SendUnchanged

\* pika.BasicProperties(**msg_props) and channel.basic_publish(...)
SendPublish ==
    /\ send.pc = "built"
    /\ \/ /\ ~BasicPropertiesAccepts(send.msg_props)
          /\ send' = [send EXCEPT
                         !.pc = IF send.variant = "adero" THEN "swallowed"
                                ELSE "raised",
                         !.err = "TypeError"]
       \/ /\ BasicPropertiesAccepts(send.msg_props)
          /\ send' = [send EXCEPT
                         !.pc = "published",
                         !.args = [exchange |-> send.exchange,
                                   routing_key |-> send.queue_name,
                                   mandatory |-> TRUE,
                                   properties |-> send.msg_props]]
    /\ SendUnchanged

(***************************************************************************)
(*                          Specifications                                 *)
(***************************************************************************)

InitSub ==
    LET \* the names tried on the variants that give the marker no meaning
        PlainQueueNames == { <<"q">>, <<"f", "a", "i", "l", "e", "d", "-", "q">> }
    IN
        \E v \in Variants, r \in ConfiguredRetries :
          \E raw \in IF v = "adero" THEN RawQueueNames ELSE PlainQueueNames :
            /\ sub = SubscriberInit(v, raw, RawExchange, r)
            /\ broker = Declare(EmptyBroker, SubscriberInit(v, raw, RawExchange, r))
            /\ scall = SCallIdle

\* a Publisher alone
PubInit ==
    /\ InitPub
    /\ sub = SubscriberInit("adero", <<"q">>, RawExchange, DefaultRetries)
    /\ broker = EmptyBroker
    /\ scall = SCallIdle
    /\ rpc = RPCClientInit(<<"q">>, RawExchange)
    /\ made = NoConstruction
    /\ codec = NoCodec
    /\ race = NoRace
    /\ send = NoSend

PubNext == PublishCall \/ PublishTry \/ PublishExcept \/ PublishRetry \/ PublisherDrop

SpecPub == PubInit /\ [][PubNext]_vars

\* a Subscriber or RPCServer alone, with an outside producer
SubInit ==
    /\ InitSub
    /\ InitPub
    /\ rpc = RPCClientInit(<<"q">>, RawExchange)
    /\ made = NoConstruction
    /\ codec = NoCodec
    /\ race = NoRace
    /\ send = NoSend

SubNext ==
    \/ ConsumeCall \/ ConsumeTry \/ BrokerDisconnect \/ ConsumeExcept
    \/ ConsumeRetry \/ KeyboardInterrupt \/ Produce \/ Deliver

SpecSub == SubInit /\ [][SubNext]_vars

\* an RPCClient and an RPCServer on the same exchange and queue, the server
\* inside start_consuming
RpcInit ==
    LET \* what the client's declarations leave on the broker
        ClientDeclare(b, c) ==
            [b EXCEPT !.queues = DeclareAll(@, {c.queue_name, c.callback_queue}),
                      !.bindings = @ \cup {<<c.exchange, c.queue_name>>,
                                           <<c.exchange, c.callback_queue>>}]
    IN
        /\ InitPub
        /\ sub = SubscriberInit("rpc", <<"q">>, RawExchange, 0)
        /\ rpc = RPCClientInit(<<"q">>, RawExchange)
        /\ broker = [ClientDeclare(Declare(EmptyBroker, sub), rpc) EXCEPT
                        !.consumers = 1]
        /\ scall = [SCallIdle EXCEPT !.pc = "consuming", !.callno = 1, !.depth = 1,
                                     !.attempts = 1]
        /\ made = NoConstruction
        /\ codec = NoCodec
        /\ race = NoRace
        /\ send = NoSend

RpcNext == ClientCall \/ ProcessDataEvents \/ StrayReply \/ Produce \/ Deliver

SpecRpc == RpcInit /\ [][RpcNext]_vars

\* a process that holds either a Publisher (no consumer has declared anything
\* on the broker) or a Subscriber / RPCServer; the other component stays as
\* constructed
AppInit == PubInit \/ SubInit

AppNext ==
    \/ broker = EmptyBroker /\ PubNext
    \/ broker # EmptyBroker /\ SubNext

SpecApp == AppInit /\ [][AppNext]_vars

\* the same process with the broker failing for good: a receive loop that
\* was entered meets a broker error, and no message arrives in between.
\* Every step of publish() and consume() is taken once it can be (the
\* calling thread runs, a sleep ends); whether and when a caller calls, the
\* operator interrupts or the publisher's connection drops is left open.
DownNext ==
    \/ broker = EmptyBroker /\ PubNext
    \/ broker # EmptyBroker /\
         (ConsumeCall \/ ConsumeTry \/ BrokerDisconnect \/ ConsumeExcept
            \/ ConsumeRetry \/ KeyboardInterrupt)

DownFairness ==
    /\ WF_vars(PublishTry) /\ WF_vars(PublishExcept) /\ WF_vars(PublishRetry)
    /\ WF_vars(ConsumeTry) /\ WF_vars(ConsumeExcept) /\ WF_vars(ConsumeRetry)
    /\ WF_vars(BrokerDisconnect)

SpecDown == AppInit /\ [][DownNext]_vars /\ DownFairness

\* one component being constructed
NewNext == Construct

SpecNew == PubInit /\ [][NewNext]_vars

\* the serializer and the security layer applied to one value
CodecInit ==
    /\ InitPub
    /\ sub = SubscriberInit("adero", <<"q">>, RawExchange, DefaultRetries)
    /\ broker = EmptyBroker
    /\ scall = SCallIdle
    /\ rpc = RPCClientInit(<<"q">>, RawExchange)
    /\ made = NoConstruction
    /\ race = NoRace
    /\ send = NoSend
    /\ \E input \in PyValues, key \in Keys : codec = CodecStart(input, key)

CodecNext == StepEncodeData \/ StepEncrypt \/ StepDecipher \/ StepDecodeData

SpecCodec == CodecInit /\ [][CodecNext]_vars

\* two threads calling consume() on one adero Subscriber, or publish() on
\* one adero Publisher, while the broker fails
RaceInit ==
    /\ InitPub
    /\ sub = SubscriberInit("adero", <<"q">>, RawExchange, DefaultRetries)
    /\ broker = EmptyBroker
    /\ scall = SCallIdle
    /\ rpc = RPCClientInit(<<"q">>, RawExchange)
    /\ made = NoConstruction
    /\ codec = NoCodec
    /\ send = NoSend
    /\ \/ \E budget \in ConfiguredRetries : race = RaceStart("consume", budget)
       \/ race = RaceStart("publish", MaxRetryCount)

RaceNext ==
    \E t \in Threads :
       \/ RaceCall(t) \/ RaceTryRaises(t) \/ RaceTryPasses(t) \/ RaceDisconnect(t)
       \/ RaceCheck(t) \/ RaceRead(t) \/ RaceWrite(t)

SpecRace == RaceInit /\ [][RaceNext]_vars

\* one Publisher of either variant, the names and the message_properties
\* its caller passes
SendInit ==
    /\ InitPub
    /\ sub = SubscriberInit("adero", <<"q">>, RawExchange, DefaultRetries)
    /\ broker = EmptyBroker
    /\ scall = SCallIdle
    /\ rpc = RPCClientInit(<<"q">>, RawExchange)
    /\ made = NoConstruction
    /\ codec = NoCodec
    /\ race = NoRace
    /\ \E variant \in {"adero", "plain"}, raw_queue \in RawQueueNames,
          raw_exchange \in RawExchanges, mp \in MessageProperties :
         send = SendStart(variant, raw_queue, raw_exchange, mp)

SendNext == SendConstruct \/ SendBuild \/ SendPublish

SpecSend == SendInit /\ [][SendNext]_vars

(***************************************************************************)
(*                              Claims                                     *)
(***************************************************************************)
Adero == sub.variant = "adero"

\* the operations of the handler on the last delivery that carry this name
OpsNamed(names) == SelectSeq(broker.log, LAMBDA o : o.op \in names)

\* C1: publish() on a newly constructed Publisher, every broker operation of
\* the call failing: at most 5 attempts are made, and PublisherException,
\* chained to the broker error, is raised after the 5th consecutive failure.
C1_RaisesAfterFiveFailures ==
    (pcall.callno = 1 /\ pcall.failures = pcall.attempts) =>
        /\ pcall.attempts <= 5
        /\ pcall.result = "raised" =>
              (pcall.failures = 5 /\ pcall.cause \in BrokerErrors)

\* C2: in every publish() call on an instance, the first or a later one, with
\* fewer than 5 consecutive broker failures followed by a success: the call
\* does not raise and the message is handed to the broker exactly once.
C2_FewFailuresNeverRaise ==
    /\ pcall.result = "raised" => pcall.failures >= 5
    /\ (pcall.result = "returned" /\ pcall.failures < 5) => pcall.handed = 1

\* C3: adero callback, processing function returned true: exactly one
\* basic_ack with the delivery's tag, and no basic_nack, no basic_reject and
\* no publication for that delivery.
C3_AckOnSuccess ==
    (Adero /\ scall.last.outcome = "true") =>
        /\ Len(broker.log) = 1
        /\ broker.log[1].op = "basic_ack"
        /\ broker.log[1].delivery_tag = scall.last.tag
        /\ OpsNamed({"basic_nack", "basic_reject", "basic_publish"}) = << >>

C3_Witness ==
    /\ Adero
    /\ scall.last.outcome = "true"
    /\ scall.last.tag = 2
    /\ Len(broker.log) = 1

\* C4: adero callback on a queue without the marker, processing function
\* returned false: first basic_nack(tag, requeue=False), then a publication
\* of the same raw body and the original properties to FAILED-<queue>
\* through the Subscriber's exchange; no ack and no reject.
C4_NackThenDeadLetter ==
    (Adero /\ ~Contains(sub.queue_name, Marker) /\ scall.last.outcome = "false") =>
        /\ Len(broker.log) = 2
        /\ broker.log[1].op = "basic_nack"
        /\ broker.log[1].delivery_tag = scall.last.tag
        /\ broker.log[1].requeue = FALSE
        /\ broker.log[2].op = "basic_publish"
        /\ broker.log[2].exchange = sub.exchange
        /\ broker.log[2].routing_key = Marker \o sub.queue_name
        /\ broker.log[2].body = scall.last.msg.body
        /\ broker.log[2].props = scall.last.msg.props
        /\ OpsNamed({"basic_ack", "basic_reject"}) = << >>
        /\ scall.last.held_after = scall.last.held_before - 1
        /\ Len(broker.queues[Marker \o sub.queue_name]) >= 1

C4_Witness ==
    /\ Adero
    /\ ~Contains(sub.queue_name, Marker)
    /\ scall.last.outcome = "false"
    /\ Len(broker.log) = 2
    /\ Len(broker.queues[Marker \o sub.queue_name]) = 2

\* C5: adero callback on a queue that carries the marker, processing function
\* returned false: basic_reject(tag, requeue=True) and nothing else, and the
\* queue holds as many messages after the round as before it.
C5_RejectRequeuesOnFailedQueue ==
    (Adero /\ Contains(sub.queue_name, Marker) /\ scall.last.outcome = "false") =>
        /\ Len(broker.log) = 1
        /\ broker.log[1].op = "basic_reject"
        /\ broker.log[1].delivery_tag = scall.last.tag
        /\ broker.log[1].requeue = TRUE
        /\ scall.last.held_after = scall.last.held_before
        /\ broker.discarded = 0
        /\ broker.published_to = {}

C5_Witness ==
    /\ Adero
    /\ 1 \in Occurrences(sub.queue_name, Marker)
    /\ scall.last.outcome = "false"
    /\ scall.last.tag = 2
    /\ scall.last.held_before = 2
    /\ Held(broker, sub.queue_name) = 2

\* the dead-letter destination as the claim C6 describes it
C6_Destination ==
    Adero =>
        /\ sub.requeue_queue =
              IF Contains(sub.queue_name, Marker)
                THEN sub.queue_name
                ELSE Marker \o sub.queue_name
        /\ Contains(sub.queue_name, Marker) =>
              /\ broker.declared = {sub.queue_name}
              /\ broker.bindings = {<<sub.exchange, sub.queue_name>>}
              /\ DOMAIN broker.queues = {sub.queue_name}

\* C6 as stated: the destination rule, and no queue carrying the marker twice
\* is ever declared or published to.
C6_NoDoubleMarkerEver ==
    /\ C6_Destination
    /\ Adero =>
          \A q \in broker.declared \cup broker.published_to :
              Cardinality(Occurrences(q, Marker)) <= 1

\* C6 amended: the destination rule, and the only queues ever declared or
\* published to are the Subscriber's own queue and, when its name carries no
\* marker, FAILED-<name>; so none carries the marker more often than the
\* name the caller gave, or than once.
C6_OneLevelOfDeadLettering ==
    /\ C6_Destination
    /\ Adero =>
          \A q \in broker.declared \cup broker.published_to :
              /\ \/ q = sub.queue_name
                 \/ q = Marker \o sub.queue_name /\ ~Contains(sub.queue_name, Marker)
              /\ \/ Cardinality(Occurrences(q, Marker)) <= 1
                 \/ Cardinality(Occurrences(q, Marker)) =
                       Cardinality(Occurrences(sub.queue_name, Marker))

C6_Witness ==
    /\ Adero
    /\ Marker \o sub.queue_name \in broker.published_to
    /\ scall.depth >= 2
    /\ scall.pc = "consuming"

\* C7: adero consume() whose every attempt ends in a broker error, entered
\* with R retries left (R is the configured budget on the first call): R
\* retries, R + 1 attempts, one 5 second wait and one decrement of retries
\* per retry, then a normal return with retries = 0.
C7_ExactlyBudgetRetries ==
    Adero =>
        /\ scall.callno = 1 => scall.start_retries = sub.budget
        /\ scall.pc \in {"try", "consuming", "raised"} =>
              /\ sub.retries = scall.start_retries - (scall.depth - 1)
              /\ Len(scall.sleeps) = scall.depth - 1
        /\ scall.result = "dormant" =>
              /\ scall.failures = scall.attempts
              /\ scall.attempts = scall.start_retries + 1
              /\ scall.sleeps = [i \in 1..scall.start_retries |-> 5]
              /\ sub.retries = 0

C7_Witness ==
    /\ Adero
    /\ scall.callno = 1
    /\ sub.budget = 3
    /\ scall.result = "dormant"
    /\ scall.attempts = 4
    /\ scall.sleeps = <<5, 5, 5>>

\* C8: adero consume() never re-raises a broker error: whatever AMQPError
\* the lazy reconnect, basic_consume or the receive loop raise, in the first
\* attempt or a retry, the call ends only by returning (dormant once the
\* budget is spent), by an interrupt or by a handler's own exception.
C8_BrokerErrorsAbsorbed ==
    Adero =>
        /\ scall.result # "raised_amqp"
        /\ scall.result = "dormant" => (sub.retries = 0 /\ scall.err \in BrokerErrors)

C8_Witness ==
    /\ Adero
    /\ scall.result = "dormant"
    /\ scall.err = "AMQPConnectionError"
    /\ scall.attempts >= 2

\* C9: RPCServer.listen and the plain Subscriber.consume absorb every broker
\* failure, a failed reconnect included, and return normally once the budget
\* is spent.
C9_PlainAbsorbsBrokerErrors ==
    sub.variant \in {"plain", "rpc"} => scall.result # "raised_amqp"

\* C10: a KeyboardInterrupt in any phase of consume() / listen() stops the
\* receive loop and then closes the channel and the connection before the
\* call returns.
C10_InterruptAlwaysCloses ==
    scall.interrupted_at # "none" =>
        /\ broker.shutdown = << "stop_consuming", "channel.close", "connection.close" >>
        /\ sub.channel_closed
        /\ sub.connection_closed


\* C11 (as claimed): call() returns only once a reply carrying the call's own
\* correlation id has arrived; a reply with another id never ends the wait.
C11_ReturnsOnlyOnMatchingReply ==
    rpc.result = "returned" => rpc.matched

\* C12: call() never returns the body of a reply whose correlation id differs
\* from the one it generated: what it returns is None or a body that
\* on_response stored from a reply with the call's id; replies with another
\* id leave response as the call cleared it.
C12_NeverReturnsForeignBody ==
    /\ rpc.pc = "waiting" => rpc.response = NoBody
    /\ rpc.result = "returned" =>
          /\ rpc.returned = rpc.response
          /\ rpc.returned # NoBody => rpc.stored_id = rpc.corr_id /\ rpc.matched
          /\ ~rpc.matched => rpc.returned = NoBody

\* a call that saw a reply with another id next to its own, and returned
C12_Witness ==
    /\ rpc.result = "returned"
    /\ rpc.mismatched > 0
    /\ rpc.matched
    /\ rpc.returned # NoBody


\* C13 (as claimed): an RPC round trip hands the caller the exact value the
\* handler produced for the payload: call({"n": 4}) against a squaring
\* handler returns 16.
C13_RoundTripReturnsHandlerValue ==
    (rpc.result = "returned" /\ rpc.matched) =>
        rpc.returned = Processor(rpc.payload)

\* C14 (as claimed): for each delivered request that parses and whose handler
\* does not raise, the handler ran exactly once on the decoded payload, exactly
\* one reply with the request's correlation_id went to its reply_to, and the
\* basic_ack came after that reply and is the only other operation.
C14_OneReplyThenAck ==
    (/\ sub.variant = "rpc"
     /\ scall.last.tag > 0
     /\ Decodable(scall.last.msg.body)
     /\ scall.last.outcome # "raise") =>
        /\ scall.last.handler_calls = 1
        /\ scall.last.handler_arg = JsonLoads(scall.last.msg.body)
        /\ Len(broker.log) = 2
        /\ broker.log[1].op = "basic_publish"
        /\ broker.log[1].routing_key = scall.last.msg.props.reply_to
        /\ broker.log[1].props.correlation_id =
              scall.last.msg.props.correlation_id
        /\ broker.log[2] = BasicAck(scall.last.tag)

\* the part of C14 that does not depend on int(msg): a request is never
\* acknowledged unless its reply was published first
C14_NoAckWithoutReply ==
    (sub.variant = "rpc" /\ scall.last.tag > 0) =>
        \A i \in 1..Len(broker.log) :
            broker.log[i].op = "basic_ack" =>
                \E j \in 1..(i - 1) :
                    /\ broker.log[j].op = "basic_publish"
                    /\ broker.log[j].props.correlation_id =
                          scall.last.msg.props.correlation_id


\* a required connection parameter is missing or empty: user, password or
\* host not given or empty, virtual host not given
Missing(p) ==
    \/ p.user \in {"absent", "empty"}
    \/ p.password \in {"absent", "empty"}
    \/ p.host \in {"absent", "empty"}
    \/ p.vhost = "absent"

\* C15: constructing any component with a required connection parameter
\* missing or empty fails with that component's own exception, and no
\* connection to the broker is attempted before the failure.
C15_MissingConfigFailsBeforeConnect ==
    (/\ made.component # "none"
     /\ Missing(Stored(made.component, made.config, made.setting))) =>
        /\ made.outcome = "config"
        /\ made.exception = ExceptionOf(made.component)
        /\ made.connects = 0

\* an RPCServer given everything but the virtual host, with a broker up
C15_Witness ==
    /\ made.component = "messaging_utility.RPCServer"
    /\ made.config.vhost = "absent"
    /\ made.setting = "absent"
    /\ made.config.user = "set"
    /\ made.broker_up
    /\ made.outcome = "config"
    /\ made.connects = 0

\* C16: constructing a Subscriber or an RPCServer with a processing function
\* that is not callable fails at construction with the component's own
\* exception, before any connection to the broker is opened.
C16_NotCallableFailsBeforeConnect ==
    (made.component \in WithProcessor /\ ~made.callable) =>
        /\ made.outcome # "constructed"
        /\ made.connects = 0
        /\ (/\ ConfigComplete(Stored(made.component, made.config, made.setting))
            /\ made.key_ok) =>
               /\ made.outcome = "processor"
               /\ made.exception = ExceptionOf(made.component)

\* an adero Subscriber with a complete configuration, a broker up and a
\* processing function that is not callable
C16_Witness ==
    /\ made.component = "adero.Subscriber"
    /\ ~Missing(made.config)
    /\ made.key_ok
    /\ made.broker_up
    /\ ~made.callable
    /\ made.outcome = "processor"

\* the declarations of one kind ("queue", "binding") in a set of declarations
Declared(kind, declared) == {d \in declared : d[1] = kind}

\* exchange, queue q and the binding of q are among the declarations
TopologyFor(exchange, q, declared) ==
    /\ <<"exchange", exchange>> \in declared
    /\ <<"queue", q>> \in declared
    /\ <<"binding", q>> \in declared

\* C17: every basic_publish and basic_consume of a Publisher or Subscriber is
\* issued on a channel of the stored connection on which the exchange, the
\* target queue and its binding were declared; a Subscriber of a normal queue
\* declares two queues and two bindings, a Publisher one of each.
C17_TopologyBeforeUse ==
    /\ pcall.attempt.op = "basic_publish" =>
          /\ pcall.attempt.on_current
          /\ TopologyFor(pub.exchange, pub.queue_name, pcall.attempt.declared)
          /\ Cardinality(Declared("queue", pcall.attempt.declared)) = 1
          /\ Cardinality(Declared("binding", pcall.attempt.declared)) = 1
    /\ scall.attempt.op = "basic_consume" =>
          /\ scall.attempt.on_current
          /\ TopologyFor(sub.exchange, sub.queue_name, scall.attempt.declared)
          /\ (Adero /\ ~Contains(sub.queue_name, Marker)) =>
                /\ TopologyFor(sub.exchange, Marker \o sub.queue_name,
                               scall.attempt.declared)
                /\ Cardinality(Declared("queue", scall.attempt.declared)) = 2
                /\ Cardinality(Declared("binding", scall.attempt.declared)) = 2
    /\ (sub.variant # "rpc" /\ scall.last.tag > 0) =>
          \A i \in 1..Len(broker.log) :
              broker.log[i].op = "basic_publish" =>
                  TopologyFor(broker.log[i].exchange, broker.log[i].routing_key,
                              scall.last.channel_declared)

\* a Subscriber of a normal queue whose consume() had to reconnect and then
\* registered its consumer
C17_Witness ==
    /\ Adero
    /\ ~Contains(sub.queue_name, Marker)
    /\ scall.attempt.op = "basic_consume"
    /\ scall.attempt.reconnected
    /\ scall.pc = "consuming"

\* C18: publish() with message_properties that is not a dict is a logged
\* no-op: it returns without raising, makes no reconnect and no
\* basic_publish, does not sleep and leaves retry_count as it was.
C18_NonDictPropsIsNoOp ==
    (pcall.callno > 0 /\ ~pcall.props_ok) =>
        /\ pcall.attempts = 0
        /\ pcall.handed = 0
        /\ pcall.reconnects = 0
        /\ pcall.attempt = NoAttempt
        /\ pcall.sleeps = <<>>
        /\ pub.retry_count = pcall.start_retry_count
        /\ pcall.pc \in {"try", "idle"}
        /\ pcall.pc = "idle" => pcall.result = "noop"

\* such a call made on a Publisher whose connection is closed and whose
\* retry_count earlier failures have raised
C18_Witness ==
    /\ ~pcall.props_ok
    /\ pcall.result = "noop"
    /\ NeedsReconnect(pub)
    /\ pub.retry_count > 1

C20_LazyReconnect ==
    \A a \in {pcall.attempt, scall.attempt} :
        /\ a.reconnected = (a.connection_closed \/ a.channel_closed)
        /\ a.op # "none" =>
              /\ a.on_open
              /\ a.on_current
              /\ a.on_new = a.reconnected

\* a publish() that found only its channel closed, reconnected and published
C20_Witness ==
    /\ pcall.attempt.op = "basic_publish"
    /\ pcall.attempt.channel_closed
    /\ ~pcall.attempt.connection_closed
    /\ pcall.attempt.reconnected
    /\ pcall.result = "returned"

\* C21: for every payload the serializer accepts, decoding what encode_data
\* returned gives back the payload.
C21_CodecRoundTrip ==
    (codec.steps = <<"encode_data", "decode_data">> /\ codec.pc # "packed")
        => (codec.pc = "done" /\ codec.output = codec.input)

\* C22: a publish() call whose payload the serializer rejects performs no
\* broker operation (connect, declare or publish), whatever the state of the
\* stored connection and channel when it is made.
C22_RejectedBeforeNetworkIO ==
    (pcall.callno > 0 /\ ~pcall.data_ok /\ pcall.props_ok)
        => (pcall.reconnects = 0 /\ pcall.handed = 0 /\ ~pcall.attempt.reconnected)

\* C23: deciphering, with the key it was made under, the token that
\* encrypt_message returned for a bytes value gives back that value; and
\* encrypt_message or decipher_message given a value that is not bytes raises
\* RabbitSecurityException and produces nothing.
C23_FernetRoundTrip ==
    /\ (/\ codec.pc \in {"opened", "done"}
        /\ \E i \in 1..Len(codec.steps) : codec.steps[i] = "encrypt_message")
           => (codec.plain.type = "bytes" /\ codec.opened = codec.plain)
    /\ (/\ codec.steps # <<>>
        /\ codec.steps[Len(codec.steps)] = "decipher_message"
        /\ codec.token # NoToken
        /\ codec.key = codec.token.key)
           => (codec.err = "none" /\ codec.opened = codec.plain)
    /\ (/\ codec.steps \in {<<"encrypt_message">>, <<"decipher_message">>}
        /\ codec.input.type # "bytes")
           => (/\ codec.pc = "raised"
               /\ codec.err = "RabbitSecurityException"
               /\ codec.token = NoToken
               /\ codec.opened = NoValue)

C23_Witness ==
    /\ codec.steps = <<"encrypt_message", "decipher_message">>
    /\ codec.pc = "opened"
    /\ codec.input.type = "bytes"
    /\ codec.opened = codec.input

\* C24: in the first publish() call on a new Publisher the sleep before the
\* n-th retry lasts 60 * n seconds, n = 1, 2, ..., so that each wait is
\* exactly 60 seconds longer than the one before it.
C24_LinearBackoff ==
    pcall.callno = 1 =>
        /\ \A n \in 1..Len(pcall.sleeps) : pcall.sleeps[n] = 60 * n
        /\ \A n \in 1..(Len(pcall.sleeps) - 1) :
              pcall.sleeps[n + 1] - pcall.sleeps[n] = 60

C24_Witness ==
    /\ pcall.callno = 1
    /\ pcall.pc = "sleep"
    /\ pcall.sleeps = <<60, 120, 180>>

\* C25: on an adero Subscriber of a queue without the marker, no message
\* whose processing function returned false is lost, whatever broker or
\* connection failure falls between the handler's steps: every message the
\* broker discarded from the original queue on basic_nack(requeue=False) is
\* on the FAILED- queue, and the message of the delivery is still held by
\* one of the two queues.
C25_NoMessageLostOnFailurePath ==
    (/\ Adero
     /\ ~Contains(sub.queue_name, Marker)
     /\ scall.last.outcome \in {"false", "false_failed"})
        => /\ broker.discarded <= Len(broker.queues[Marker \o sub.queue_name])
           /\ \/ \E i \in 1..Len(broker.queues[sub.queue_name]) :
                    broker.queues[sub.queue_name][i] = scall.last.msg
              \/ \E i \in 1..Len(broker.unacked) :
                    broker.unacked[i].msg = scall.last.msg
              \/ \E i \in 1..Len(broker.queues[Marker \o sub.queue_name]) :
                    broker.queues[Marker \o sub.queue_name][i] = scall.last.msg

\* C26: once consume() / listen() has returned because the retries were
\* exhausted (dormant) or after a graceful shutdown (closed), nothing done
\* on the instance, a further consume() / listen() call included, makes it
\* connect or consume again.
C26_DormantAndClosedAreTerminal ==
    scall.prev \in {"dormant", "closed"}
        => (scall.pc # "consuming" /\ ~scall.attempt.reconnected)

\* C27: when decrypting, decoding or the processing function raises inside
\* the adero callback, the delivery stays unsettled (no ack, nack, reject or
\* dead-letter publication), the exception leaves consume() to the caller
\* (no sleep, no reconnect, no dormancy) and retries keeps its value.
C27_HandlerStep ==
    (/\ Adero
     /\ scall'.deliveries = scall.deliveries + 1
     /\ scall'.last.outcome \in {"undecodable", "raise"})
        => /\ scall'.pc = "idle"
           /\ scall'.result = "raised_other"
           /\ scall'.sleeps = scall.sleeps
           /\ sub' = sub
           /\ broker'.log = <<>>
           /\ \E i \in 1..Len(broker'.unacked) :
                 /\ broker'.unacked[i].tag = scall'.last.tag
                 /\ broker'.unacked[i].msg = scall'.last.msg
           /\ broker'.discarded = broker.discarded
           /\ broker'.published_to = broker.published_to

C27_HandlerErrorPropagates == [][C27_HandlerStep]_vars

C27_Witness ==
    /\ Adero
    /\ scall.last.outcome = "raise"
    /\ scall.pc = "idle"
    /\ scall.result = "raised_other"
    /\ sub.retries = scall.start_retries
    /\ \E i \in 1..Len(broker.unacked) : broker.unacked[i].tag = scall.last.tag

\* C28: when decrypting, decoding or the processing function fails inside
\* the adero callback, the handler logs the error before it propagates.
C28_HandlerLogsError ==
    (Adero /\ scall.last.outcome \in {"undecodable", "raise"})
        => \E i \in 1..Len(scall.last.logged) :
              scall.last.logged[i] \in {"warning", "error", "exception", "critical"}

\* a step in which the broker hands the next delivery to the handler
HandlerStarts == scall'.deliveries = scall.deliveries + 1

\* the handler of the latest delivery has issued its settlement: the channel
\* was given an ack, nack or reject of its tag and the broker no longer
\* holds it as unacknowledged
LastSettled ==
    /\ \E i \in 1..Len(broker.log) :
          /\ broker.log[i].op \in {"basic_ack", "basic_nack", "basic_reject"}
          /\ broker.log[i].delivery_tag = scall.last.tag
    /\ \A i \in 1..Len(broker.unacked) : broker.unacked[i].tag # scall.last.tag

C30_CountersRaceUnderConcurrentUse ==
    /\ race.kind = "consume" =>
          /\ race.counter >= -1
          /\ (race.counter < 0 \/ race.retried > race.budget) => race.overlapped
    /\ race.kind = "publish" =>
          /\ race.counter <= race.budget + 2
          /\ (race.counter > race.budget + 1 \/ race.retried > race.budget)
                => race.overlapped

C30_Witness ==
    /\ race.kind = "consume"
    /\ race.budget > 0
    /\ race.counter < 0
    /\ race.retried > race.budget

\* C31: each Publisher/Subscriber instance holds at most one open broker
\* connection: after publish() or consume() lazily re-established the
\* connection, no earlier connection of that instance remains open.
C31_NoEarlierConnectionLeftOpen ==
    \A a \in {pcall.attempt, scall.attempt} :
        a.reconnected => ~a.left_open

\* a step in which call() returns
C32_CallReturns == rpc.pc = "waiting" /\ rpc'.pc = "idle"

\* C32: RPCClient.call has no timeout: while nothing has arrived on the
\* client's reply queue the call does not return; every return of call()
\* happens with at least one delivery on the reply queue.
C32_NoReturnWithoutDelivery ==
    [][C32_CallReturns => broker.queues[rpc.callback_queue] # <<>>]_vars

\* the server's handler raised on the request of the call in progress and
\* published no reply: nothing is on the reply queue and the call waits
C32_Witness ==
    /\ rpc.pc = "waiting"
    /\ scall.last.outcome \in {"type_error", "raise"}
    /\ scall.last.msg.props.correlation_id = rpc.corr_id
    /\ broker.queues[rpc.callback_queue] = <<>>
    /\ broker.queues[rpc.queue_name] = <<>>

\* the default of a property, as the claim words it
C33_Default(k) ==
    CASE k = "delivery_mode" -> "2"
      [] k = "expiration" -> "86400000"
      [] k = "timestamp" -> "now"
      [] k = "content_encoding" -> "utf-8"

\* the default keys of a variant
C33_DefaultKeys(variant) ==
    {"delivery_mode", "expiration", "timestamp"}
       \cup (IF variant = "plain" THEN {"content_encoding"} ELSE {})

\* C33: the properties sent by publish are the defaults (persistent delivery
\* mode, expiration "86400000", send timestamp, and content-encoding utf-8
\* in the plain variant) merged with the caller's mapping: the caller's value
\* for every key of the caller's mapping, the default for every other
\* default key, and nothing else.
C33_PropertiesAreDefaultsMergedWithCallers ==
    send.pc = "published" =>
        LET caller == send.message_properties.items
            sent == send.args.properties
        IN  /\ DOMAIN sent = C33_DefaultKeys(send.variant) \cup DOMAIN caller
            /\ \A k \in DOMAIN caller : sent[k] = caller[k]
            /\ \A k \in C33_DefaultKeys(send.variant) \ DOMAIN caller :
                  sent[k] = C33_Default(k)

\* a publish whose caller overrode one default, left another alone and added
\* a property that has no default
C33_Witness ==
    /\ send.pc = "published"
    /\ "expiration" \in DOMAIN send.message_properties.items
    /\ "priority" \in DOMAIN send.message_properties.items
    /\ "delivery_mode" \notin DOMAIN send.message_properties.items
    /\ send.args.properties["expiration"] = "given"
    /\ send.args.properties["delivery_mode"] = "2"

\* the lower-case letters and their upper-case forms
C34_Cases ==
    { <<"a", "A">>, <<"d", "D">>, <<"e", "E">>, <<"f", "F">>, <<"i", "I">>,
      <<"l", "L">>, <<"q", "Q">>, <<"x", "X">> }

\* no lower-case letter in s
C34_IsUpper(s) == \A i \in 1..Len(s) : \A c \in C34_Cases : s[i] # c[1]

\* a and b differ in letter case at most
C34_SameButCase(a, b) ==
    /\ Len(a) = Len(b)
    /\ \A i \in 1..Len(a) :
          \/ a[i] = b[i]
          \/ <<a[i], b[i]>> \in C34_Cases
          \/ <<b[i], a[i]>> \in C34_Cases

\* C34: queue and exchange names are upper-cased at construction; every
\* message a Publisher sends goes to its exchange with routing key equal to
\* its queue name, the key under which the queue was bound, with the
\* mandatory flag set; a Subscriber built from names that differ from the
\* Publisher's only in letter case has that exchange and that queue.
C34_UpperCasedNamesAddressOneQueue ==
    /\ send.pc \notin {"new"} =>
          /\ C34_IsUpper(send.queue_name) /\ C34_IsUpper(send.exchange)
          /\ C34_SameButCase(send.queue_name, send.raw_queue)
          /\ C34_SameButCase(send.exchange, send.raw_exchange)
    /\ send.pc = "published" =>
          /\ send.args.exchange = send.exchange
          /\ send.args.routing_key = send.queue_name
          /\ <<"binding", send.args.routing_key>> \in send.declared
          /\ send.args.mandatory
          /\ \A v \in Variants, q \in RawQueueNames, e \in RawExchanges :
                (C34_SameButCase(q, send.raw_queue)
                   /\ C34_SameButCase(e, send.raw_exchange))
                  => LET s == SubscriberInit(v, q, e, DefaultRetries)
                     IN  /\ s.queue_name = send.args.routing_key
                         /\ s.exchange = send.args.exchange
                         /\ <<"binding", s.queue_name>> \in s.declared

\* a Publisher built from "failed-q" on "e x" has published; a Subscriber
\* built from "FAILED-Q" on "E x" consumes from the queue it addressed
C34_Witness ==
    /\ send.pc = "published"
    /\ send.raw_queue = <<"f", "a", "i", "l", "e", "d", "-", "q">>
    /\ send.raw_exchange = <<"e", "x">>
    /\ SubscriberInit("adero", <<"F", "A", "I", "L", "E", "D", "-", "Q">>,
                      <<"E", "x">>, DefaultRetries).queue_name
         = send.args.routing_key

\* C35: a payload published by an adero Publisher (serialized, then
\* encrypted) and delivered to an adero Subscriber holding the same key
\* (decrypted, then deserialized) reaches the processing function as data
\* equal to the published payload.
C35_EnvelopeDeliversPayload ==
    (/\ codec.steps = <<"encode_data", "encrypt_message",
                        "decipher_message", "decode_data">>
     /\ codec.token.key = codec.key)
        => (codec.pc = "done" /\ codec.output = codec.input)

\* the settlements of the latest delivery among the handler's operations
C36_Settlements ==
    SelectSeq(broker.log,
              LAMBDA o : /\ o.op \in {"basic_ack", "basic_nack", "basic_reject"}
                         /\ o.delivery_tag = scall.last.tag)

\* the plain Subscriber publishes nothing and nothing of it names a FAILED-
\* queue
C36_NeverDeadLetters ==
    sub.variant = "plain" =>
        /\ OpsNamed({"basic_publish"}) = << >>
        /\ \A q \in broker.published_to \cup broker.declared \cup DOMAIN broker.queues :
              Contains(q, Marker) => q = sub.queue_name
        /\ broker.discarded = 0

\* C36 as stated: the plain Subscriber settles every delivery exactly once,
\* and never dead-letters.
C36_PlainSettlesEveryDeliveryOnce ==
    /\ C36_NeverDeadLetters
    /\ (sub.variant = "plain" /\ scall.last.outcome # "none")
          => Len(C36_Settlements) = 1

\* C36: the plain Subscriber settles every delivery whose handler returns
\* exactly once and never dead-letters: an ack when the processing function
\* returned a truthy value, otherwise a nack with requeue, after which the
\* message is back on the same queue; nothing is ever published to a FAILED-
\* queue.
C36_PlainSettlesReturnedDeliveryOnce ==
    /\ C36_NeverDeadLetters
    /\ (sub.variant = "plain" /\ scall.last.outcome \in {"true", "false"}) =>
          /\ Len(C36_Settlements) = 1
          /\ broker.log = C36_Settlements
          /\ \A i \in 1..Len(broker.unacked) : broker.unacked[i].tag # scall.last.tag
          /\ scall.last.outcome = "true" =>
                /\ broker.log[1].op = "basic_ack"
                /\ scall.last.held_after = scall.last.held_before - 1
          /\ scall.last.outcome = "false" =>
                /\ broker.log[1].op = "basic_nack"
                /\ broker.log[1].requeue
                /\ scall.last.held_after = scall.last.held_before
                /\ \E i \in 1..Len(broker.queues[sub.queue_name]) :
                      broker.queues[sub.queue_name][i] = scall.last.msg

\* a plain Subscriber on a queue named FAILED-Q whose processing function
\* returned false on the second delivery
C36_Witness ==
    /\ sub.variant = "plain"
    /\ Contains(sub.queue_name, Marker)
    /\ scall.last.outcome = "false"
    /\ scall.last.tag = 2
    /\ Len(C36_Settlements) = 1

\* one step of an adero Publisher, as C37 has it
C37_Step ==
    /\ pub'.retry_count >= pub.retry_count
    /\ pub'.slept <= 5
    /\ (pcall.pc = "except_amqp" /\ pub.retry_count > 5) =>
          /\ pcall'.pc \in {"except_amqp", "idle"}
          /\ pcall'.pc = "idle" => (pcall'.result = "raised" /\ pcall'.depth = 0)
          /\ pcall'.sleeps = pcall.sleeps
          /\ pub'.slept = pub.slept
          /\ pub'.retry_count = pub.retry_count

\* C37: Publisher.retry_count is never reset or decreased: over the lifetime
\* of one adero Publisher, across all of its publish calls, at most 5
\* backoff sleeps occur, and once retry_count exceeds 5 every later broker
\* failure raises PublisherException at once, without a sleep or a retry.
C37_RetryCountNeverReset == [][C37_Step]_vars

\* a later publish() on a Publisher that has used up its retries: its first
\* broker failure was raised to the caller without a sleep
C37_Witness ==
    /\ pub.retry_count = 6
    /\ pub.slept = 5
    /\ pcall.callno >= 2
    /\ pcall.start_retry_count = 6
    /\ pcall.result = "raised"
    /\ pcall.failures = 1
    /\ pcall.sleeps = <<>>

\* one step of a Subscriber or RPCServer used by one thread, as C38 has it
C38_Step ==
    /\ 0 <= sub'.retries /\ sub'.retries <= sub'.budget
    /\ sub'.budget = sub.budget
    /\ sub'.retries <= sub.retries
    /\ sub'.retried <= sub'.budget
    /\ (scall.depth >= 1 /\ scall'.depth = scall.depth + 1)
          => (sub'.retries = sub.retries - 1 /\ sub'.retried = sub.retried + 1)
    /\ (scall.pc = "try" /\ scall'.pc = "consuming")
          => sub'.retries = sub.retries

\* C38: under sequential use retries stays within 0 .. configured budget and
\* never increases (a successful reconnection does not restore it), every
\* retry takes one unit of it, and the retries of one instance, over all
\* of its consume() calls and disconnects, number at most the budget.
C38_RetriesWithinBudget == [][C38_Step]_vars

\* a budget of 3 spent over two consume() calls: the first call retried,
\* consumed again and ended with retries left, the second went dormant
C38_Witness ==
    /\ Adero
    /\ sub.budget = 3
    /\ scall.callno = 2
    /\ scall.start_retries \in 1..2
    /\ scall.result = "dormant"
    /\ sub.retries = 0
    /\ sub.retried = 3

\* C39: after any sequence of broker errors and retries at most one
\* registration of the Subscriber's handler is active on its current
\* channel: re-entering consume() while connection and channel are still
\* open registers no second consumer.
C39_AtMostOneConsumer == Adero => broker.consumers <= 1

\* C40: recursion is bounded and the calls end: the nesting depth of
\* publish() never exceeds 6 (the first attempt and 5 retries), that of
\* consume() / listen() never exceeds the configured retry budget plus 1,
\* and with the broker failing for good every publish() and every consume()
\* call that was started comes to an end.
C40_BoundedRecursionAndTermination ==
    /\ [](pcall.depth <= 6 /\ scall.depth <= sub.budget + 1)
    /\ (pcall.pc # "idle") ~> (pcall.pc = "idle")
    /\ (scall.pc # "idle") ~> (scall.pc = "idle")

\* a publish() that went six frames deep against a failing broker and ended
\* by raising
C40_Witness ==
    /\ pcall.callno = 1
    /\ pcall.attempts = 6
    /\ pcall.failures = 6
    /\ Len(pcall.sleeps) = 5
    /\ pcall.pc = "idle"
    /\ pcall.result = "raised"

====
